---- MODULE Spec2Model ----
(***************************************************************************)
(* A model of the xlsx-filter Node-RED node (src/xlsx-filter.js): the      *)
(* input handler that filters, selects, renames and derives columns of     *)
(* file -> sheet -> rows[] data, with its helpers.                         *)
(*                                                                         *)
(* JavaScript strings are sequences of one-character strings, so that      *)
(* trim, toLowerCase, startsWith, includes, split and path.basename are    *)
(* computed character by character.  JavaScript values are tagged records. *)
(* Objects are ordered sequences of key/value entries (insertion order).   *)
(***************************************************************************)
EXTENDS Integers, Sequences, FiniteSets, TLC

VARIABLES
    node,      \* the settings of the node: the config-file options and the
               \* embedded editor configuration
    disk,      \* the config file under the user directory, and the writes made to it
    watcher,   \* fs.watchFile on the config file and the debounce timer of onChange
    rt,        \* node.rt: the runtime schema of the node
    context,   \* node.context(): the flow and global context stores
    status,    \* the last node.status(...) shown
    running,   \* the invocation that holds the JavaScript thread, 0 when none
    st,        \* per invocation of the input handler: its locals and position
    inbox,     \* the messages the upstream node delivers, in order
    lastLog    \* the value resolutions made by the last step of a handler

vars == <<node, disk, watcher, rt, context, status, running, st, inbox, lastLog>>

----------------------------------------------------------------------------
(* Strings                                                                 *)

\* String.prototype.toLowerCase, on the letters the model uses
LowerChar(c) ==
    CASE c = "A" -> "a" [] c = "B" -> "b" [] c = "C" -> "c" [] c = "N" -> "n"
      [] c = "O" -> "o" [] c = "K" -> "k" [] c = "S" -> "s" [] c = "X" -> "x"
      [] c = "J" -> "j"
      [] OTHER -> c

ToLowerCase(s) == [i \in 1..Len(s) |-> LowerChar(s[i])]

\* String.prototype.toUpperCase, on the letters the model uses
UpperChar(c) ==
    CASE c = "a" -> "A" [] c = "b" -> "B" [] c = "c" -> "C" [] c = "n" -> "N"
      [] c = "o" -> "O" [] c = "k" -> "K" [] c = "s" -> "S" [] c = "x" -> "X"
      [] OTHER -> c

ToUpperCase(s) == [i \in 1..Len(s) |-> UpperChar(s[i])]

\* String.prototype.trim: white space is the blank
Trim(s) ==
    LET idx == {i \in 1..Len(s) : s[i] # " "}
    IN  IF idx = {} THEN <<>>
        ELSE LET lo == CHOOSE i \in idx : \A j \in idx : i <= j
                 hi == CHOOSE i \in idx : \A j \in idx : i >= j
             IN  SubSeq(s, lo, hi)

StartsWith(s, p) == Len(p) <= Len(s) /\ SubSeq(s, 1, Len(p)) = p

\* String.prototype.includes
Includes(s, p) ==
    \E i \in 0..(Len(s) - Len(p)) : SubSeq(s, i + 1, i + Len(p)) = p

\* String.prototype.split(sep).filter(Boolean): the non-empty pieces between
\* occurrences of the one-character separator
RECURSIVE SplitFilter(_, _)
SplitFilter(s, sep) ==
    IF s = <<>> THEN <<>>
    ELSE LET cut == {i \in 1..Len(s) : s[i] = sep}
         IN  IF cut = {} THEN <<s>>
             ELSE LET c == CHOOSE i \in cut : \A j \in cut : i <= j
                      head == SubSeq(s, 1, c - 1)
                      rest == SplitFilter(SubSeq(s, c + 1, Len(s)), sep)
                  IN  IF head = <<>> THEN rest ELSE <<head>> \o rest

\* path.basename (POSIX): trailing separators are dropped, then the part after
\* the last separator is returned
Basename(p) ==
    LET solid == {i \in 1..Len(p) : p[i] # "/"}
    IN  IF solid = {} THEN <<>>
        ELSE LET end == CHOOSE i \in solid : \A j \in solid : i >= j
                 seps == {i \in 1..end : p[i] = "/"}
                 start == IF seps = {} THEN 1
                          ELSE 1 + (CHOOSE i \in seps : \A j \in seps : i >= j)
             IN  SubSeq(p, start, end)

\* new RegExp(p): of the patterns the model uses, those with an unclosed
\* group do not compile; the others are literal text
RegExpCompiles(p) == \A i \in 1..Len(p) : p[i] # "("

\* RegExp.prototype.test for a literal pattern: the text occurs in the subject
RegExpTest(p, s) == Includes(s, p)

DigitChars == <<"0", "1", "2", "3", "4", "5", "6", "7", "8", "9">>

IsDigit(c) == \E d \in 1..10 : DigitChars[d] = c

DigitVal(c) == (CHOOSE d \in 1..10 : DigitChars[d] = c) - 1

RECURSIVE ParseDigits(_)
ParseDigits(s) ==
    IF s = <<>> THEN 0
    ELSE 10 * ParseDigits(SubSeq(s, 1, Len(s) - 1)) + DigitVal(s[Len(s)])

RECURSIVE FormatNat(_)
FormatNat(n) ==
    IF n < 10 THEN <<DigitChars[n + 1]>>
    ELSE FormatNat(n \div 10) \o <<DigitChars[(n % 10) + 1]>>

----------------------------------------------------------------------------
(* JavaScript values                                                       *)

Undefined == [t |-> "undefined"]
Null      == [t |-> "null"]
NaN       == [t |-> "nan"]
Bool(b)   == [t |-> "boolean", b |-> b]
Num(n)    == [t |-> "number", n |-> n]
Str(s)    == [t |-> "string", s |-> s]
Arr(e)    == [t |-> "array", e |-> e]
Obj(e)    == [t |-> "object", e |-> e]
Ent(k, v) == [k |-> k, v |-> v]

IsString(v) == v.t = "string"
IsArray(v)  == v.t = "array"

\* typeof v === "object"
TypeofObject(v) == v.t \in {"object", "array", "null"}

\* v == null
IsNullish(v) == v.t \in {"null", "undefined"}

Truthy(v) ==
    CASE v.t = "undefined" -> FALSE
      [] v.t = "null"      -> FALSE
      [] v.t = "nan"       -> FALSE
      [] v.t = "boolean"   -> v.b
      [] v.t = "number"    -> v.n # 0
      [] v.t = "string"    -> v.s # <<>>
      [] OTHER             -> TRUE

\* Number(v), for the primitives; digits are the only numerals of the model
ToNumber(v) ==
    CASE v.t = "number"    -> v
      [] v.t = "boolean"   -> Num(IF v.b THEN 1 ELSE 0)
      [] v.t = "null"      -> Num(0)
      [] v.t = "string"    ->
            LET t == Trim(v.s)
            IN  IF t = <<>> THEN Num(0)
                ELSE IF \A i \in 1..Len(t) : IsDigit(t[i]) THEN Num(ParseDigits(t))
                ELSE NaN
      [] OTHER             -> NaN

\* String(v), for the primitives
ToStr(v) ==
    CASE v.t = "string"    -> v.s
      [] v.t = "number"    -> FormatNat(v.n)
      [] v.t = "boolean"   -> IF v.b THEN <<"t", "r", "u", "e">>
                                     ELSE <<"f", "a", "l", "s", "e">>
      [] v.t = "null"      -> <<"n", "u", "l", "l">>
      [] v.t = "undefined" -> <<"u", "n", "d", "e", "f", "i", "n", "e", "d">>
      [] v.t = "nan"       -> <<"N", "a", "N">>
      [] OTHER             -> <<"[", "o", "b", "j", "e", "c", "t", "]">>

\* a == b between primitives (objects are equal to nothing but themselves)
RECURSIVE LooseEq(_, _)
LooseEq(a, b) ==
    CASE IsNullish(a) \/ IsNullish(b) -> IsNullish(a) /\ IsNullish(b)
      [] a.t = "nan" \/ b.t = "nan"   -> FALSE
      [] a.t = b.t                    -> a = b
      [] a.t = "boolean"              -> LooseEq(ToNumber(a), b)
      [] b.t = "boolean"              -> LooseEq(a, ToNumber(b))
      [] a.t = "number" /\ b.t = "string" -> a = ToNumber(b)
      [] a.t = "string" /\ b.t = "number" -> ToNumber(a) = b
      [] OTHER                        -> FALSE

\* Number(a) < Number(b) and its companions: false when either is NaN
NumLess(a, b) ==
    LET x == ToNumber(a)  y == ToNumber(b)
    IN  x.t = "number" /\ y.t = "number" /\ x.n < y.n

NumLessEq(a, b) ==
    LET x == ToNumber(a)  y == ToNumber(b)
    IN  x.t = "number" /\ y.t = "number" /\ x.n <= y.n

\* Object.keys and Object.entries: own keys in insertion order; the index keys
\* of an array or a string; nothing for the other primitives
Entries(v) ==
    CASE v.t = "object" -> v.e
      [] v.t = "array"  -> [i \in 1..Len(v.e) |-> Ent(FormatNat(i - 1), v.e[i])]
      [] v.t = "string" -> [i \in 1..Len(v.s) |-> Ent(FormatNat(i - 1), Str(<<v.s[i]>>))]
      [] OTHER          -> <<>>

Keys(v) == LET e == Entries(v) IN [i \in 1..Len(e) |-> e[i].k]

\* Object.prototype.hasOwnProperty.call(v, k)
HasOwn(v, k) == \E i \in 1..Len(Entries(v)) : Entries(v)[i].k = k

\* v[k]
Get(v, k) ==
    LET e == Entries(v)
    IN  IF \E i \in 1..Len(e) : e[i].k = k
        THEN e[CHOOSE i \in 1..Len(e) : e[i].k = k].v
        ELSE Undefined

\* o[k] = x on an object: an existing key keeps its place, a new one goes last
Put(o, k, x) ==
    IF HasOwn(o, k)
    THEN Obj([i \in 1..Len(o.e) |-> IF o.e[i].k = k THEN Ent(k, x) ELSE o.e[i]])
    ELSE Obj(Append(o.e, Ent(k, x)))

\* delete o[k]
Delete(o, k) == Obj(SelectSeq(o.e, LAMBDA en : en.k # k))

\* { ...v }: a new object with the own entries of v (none for null/undefined)
Spread(v) == Obj(Entries(v))

----------------------------------------------------------------------------
(* The expression evaluator and the dynamic value resolver                 *)

\* sanitizeExpr: zero-width characters and the arrow glyph removed (written
\* here as the characters "ZWSP" and "ARROW"), then trimmed
sanitizeExpr(src) == Trim(SelectSeq(src, LAMBDA c : c \notin {"ZWSP", "ARROW"}))

xTrue   == <<"t", "r", "u", "e">>
xFalse  == <<"f", "a", "l", "s", "e">>
xSheet  == <<"s", "h", "e", "e", "t">>
xRowDot == <<"r", "o", "w", ".">>
xUpper  == <<"$", "u", "p", "p", "e", "r", "c", "a", "s", "e", "(">>

\* a quoted string literal of JSONata, 'text'
IsQuoted(x) ==
    /\ Len(x) >= 2 /\ x[1] = "'" /\ x[Len(x)] = "'"
    /\ \A j \in 2..(Len(x) - 1) : x[j] \notin {"'", ",", "[", "]", "("}

Unquote(x) == SubSeq(x, 2, Len(x) - 1)

\* a simple name, as in a path step
IsName(x) ==
    /\ x # <<>>
    /\ \A j \in 1..Len(x) : x[j] \notin {"'", ",", "[", "]", "(", ")", ".", " ", "$"}

\* evalJSONata: the outcome of the evaluator's callback, [ok, v]; ok = FALSE
\* is a rejected promise.  The context object binds row and sheet (a value:
\* undefined where the caller binds none).  The evaluator is the host's; the
\* model evaluates this fragment of JSONata and rejects every other text:
\*   true, false        the booleans
\*   'text'             a string
\*   ['a','b']          a list of strings
\*   sheet              the bound sheet name
\*   row.name           the cell of the bound row (undefined when absent)
\*   $uppercase(row.name)   the cell in upper case; an error for a non-string
evalJSONata(src, row, sheet) ==
    LET Good(v) == [ok |-> TRUE, v |-> v]
        Bad == [ok |-> FALSE, v |-> Undefined]
    IN  CASE src = xTrue  -> Good(Bool(TRUE))
          [] src = xFalse -> Good(Bool(FALSE))
          [] src = xSheet -> Good(sheet)
          [] IsQuoted(src) -> Good(Str(Unquote(src)))
          [] Len(src) >= 2 /\ src[1] = "[" /\ src[Len(src)] = "]" ->
                LET items == SplitFilter(SubSeq(src, 2, Len(src) - 1), ",")
                IN  IF \A j \in 1..Len(items) : IsQuoted(items[j])
                    THEN Good(Arr([j \in 1..Len(items) |-> Str(Unquote(items[j]))]))
                    ELSE Bad
          [] StartsWith(src, xRowDot) /\ IsName(SubSeq(src, 5, Len(src))) ->
                Good(Get(row, SubSeq(src, 5, Len(src))))
          [] /\ StartsWith(src, xUpper \o xRowDot) /\ src[Len(src)] = ")"
             /\ IsName(SubSeq(src, 16, Len(src) - 1)) ->
                LET a == Get(row, SubSeq(src, 16, Len(src) - 1))
                IN  IF a.t = "string" THEN Good(Str(ToUpperCase(a.s)))
                    ELSE IF a.t = "undefined" THEN Good(Undefined)
                    ELSE Bad
          [] OTHER -> Bad

\* One value resolution or expression evaluation made by a step: where (site,
\* and the index i of the list entry it belongs to), the type of the field,
\* whether it succeeded, and whether it went through resolveDynamic.
Ev(site, i, typ, ok, via) ==
    [site |-> site, i |-> i, typ |-> typ, ok |-> ok, via |-> via]

\* process.env
ProcessEnv == Obj(<<Ent(<<"K">>, Str(<<"1">>))>>)

\* RED.util.getMessageProperty / a context store's get: the value at a dotted path
RECURSIVE GetPath(_, _)
GetPath(root, parts) ==
    IF parts = <<>> THEN root
    ELSE IF IsNullish(root) THEN Undefined
    ELSE GetPath(Get(root, Head(parts)), Tail(parts))

\* getRootContainer + deepGet: the value at pathStr of the message or of a context store
deepGet(msg, ctx, scope, pathStr) ==
    IF pathStr = <<>> THEN Undefined
    ELSE IF scope = "flow" THEN GetPath(ctx.flow, SplitFilter(pathStr, "."))
    ELSE IF scope = "global" THEN GetPath(ctx.global, SplitFilter(pathStr, "."))
    ELSE GetPath(msg, SplitFilter(pathStr, "."))

\* the result of a resolution: the value and the one resolution logged
Resolved(v, ok, site, i, typ) ==
    [v |-> v, log |-> <<Ev(site, i, typ, ok, "resolveDynamic")>>]

\* the jsonata case of resolveDynamic, given the outcome of the evaluation
ResolvedExpr(out, site, i) ==
    Resolved(IF out.ok THEN out.v ELSE Undefined, out.ok, site, i, "jsonata")

\* resolveDynamic: [v, log]; a failed expression resolves to undefined
resolveDynamic(msg, ctx, val, typ, rowCtx, sheet, site, i) ==
    CASE typ = "msg"    -> Resolved(GetPath(msg, SplitFilter(val, ".")), TRUE, site, i, typ)
      [] typ = "flow"   -> Resolved(GetPath(ctx.flow, SplitFilter(val, ".")), TRUE, site, i, typ)
      [] typ = "global" -> Resolved(GetPath(ctx.global, SplitFilter(val, ".")), TRUE, site, i, typ)
      [] typ = "env"    -> Resolved(Get(ProcessEnv, val), TRUE, site, i, typ)
      [] typ = "jsonata" ->
            ResolvedExpr(evalJSONata(sanitizeExpr(val), rowCtx, sheet), site, i)
      [] OTHER          -> Resolved(Str(val), TRUE, site, i, typ)

\* ensureArray
ensureArray(v) ==
    IF IsArray(v) THEN v.e
    ELSE IF IsNullish(v) THEN <<>>
    ELSE <<v>>

coerceVal(v) ==
    IF IsString(v)
    THEN LET t == Trim(v.s)
         IN  IF t = <<"t", "r", "u", "e">> THEN Bool(TRUE)
             ELSE IF t = <<"f", "a", "l", "s", "e">> THEN Bool(FALSE)
             ELSE IF t # <<>> /\ ToNumber(Str(t)).t = "number" THEN ToNumber(Str(t))
             ELSE v
    ELSE v

isEmpty(v) == IsNullish(v) \/ (IsString(v) /\ Trim(v.s) = <<>>)

\* a step suspends on the evaluator when it evaluates an expression
Suspends(log) == \E j \in 1..Len(log) : log[j].typ = "jsonata"

\* resolveDynamic reports a failed expression on the status channel
Diagnosed(log) ==
    \E j \in 1..Len(log) : log[j].via = "resolveDynamic" /\ ~log[j].ok

----------------------------------------------------------------------------
(* Sheet filters, rule evaluation                                          *)

\* safeRegex: the compiled pattern, or null for an empty or invalid one
safeRegex(rx) ==
    IF rx # <<>> /\ RegExpCompiles(rx) THEN [null |-> FALSE, src |-> rx]
    ELSE [null |-> TRUE, src |-> <<>>]

passNameFilters(name, inc, exc) ==
    IF ~inc.null /\ ~RegExpTest(inc.src, name) THEN FALSE
    ELSE IF ~exc.null /\ RegExpTest(exc.src, name) THEN FALSE
    ELSE TRUE

\* the jsonata case of ruleAppliesTo, given the outcome of the evaluation
ScopeExpr(out, i) ==
    [v |-> out.ok /\ Truthy(out.v),
     log |-> <<Ev("scope", i, "jsonata", out.ok, "evalJSONata")>>]

\* ruleAppliesTo: [v, log]; an entry without a sheet scope applies everywhere
ruleAppliesTo(r, sheet, rowCtx, i) ==
    IF r.sheetScope = <<>> THEN [v |-> TRUE, log |-> <<>>]
    ELSE CASE r.sheetScopeType = "str" ->
                [v |-> sheet = r.sheetScope, log |-> <<>>]
           [] r.sheetScopeType = "regex" ->
                [v |-> RegExpCompiles(r.sheetScope) /\ RegExpTest(r.sheetScope, sheet),
                 log |-> <<>>]
           [] r.sheetScopeType = "jsonata" ->
                ScopeExpr(evalJSONata(sanitizeExpr(r.sheetScope), rowCtx, Str(sheet)), i)
           [] OTHER -> [v |-> TRUE, log |-> <<>>]

\* the switch of compare, on the coerced operands
Compared(r, Lc, Rraw) ==
    LET Ls == IF IsString(Lc) /\ ~r.caseSensitive THEN Str(ToLowerCase(Lc.s)) ELSE Lc
        Rs == IF IsString(Rraw) /\ ~r.caseSensitive THEN Str(ToLowerCase(Rraw.s)) ELSE Rraw
    IN  CASE r.op = "=="  -> LooseEq(Ls, Rs)
          [] r.op = "!="  -> ~LooseEq(Ls, Rs)
          [] r.op = "<"   -> NumLess(Lc, Rraw)
          [] r.op = "<="  -> NumLessEq(Lc, Rraw)
          [] r.op = ">"   -> NumLess(Rraw, Lc)
          [] r.op = ">="  -> NumLessEq(Rraw, Lc)
          [] r.op = "contains"  ->
                IF ~IsString(Ls) \/ ~IsString(Rs) THEN FALSE ELSE Includes(Ls.s, Rs.s)
          [] r.op = "!contains" ->
                IF ~IsString(Ls) \/ ~IsString(Rs) THEN TRUE ELSE ~Includes(Ls.s, Rs.s)
          [] r.op = "regex" ->
                RegExpCompiles(ToStr(Rraw)) /\ RegExpTest(ToStr(Rraw), ToStr(Lc))
          [] r.op = "isEmpty"  -> isEmpty(Lc)
          [] r.op = "!isEmpty" -> ~isEmpty(Lc)
          [] OTHER -> FALSE

\* a faulty variant of compare: with coercion off, a string cell is not
\* converted to a number by the ordering comparators
compareTextUnordered(r, L, rval) ==
    IF r.coerce = FALSE /\ IsString(L) /\ r.op \in {"<", "<=", ">", ">="} THEN FALSE
    ELSE Compared(r, IF r.coerce = FALSE THEN L ELSE coerceVal(L),
                     IF r.coerce = FALSE THEN rval ELSE coerceVal(rval))

\* compare, the helper of rowPasses: one cell L against the resolved right side
compare(r, L, rval) ==
    Compared(r, IF r.coerce = FALSE THEN L ELSE coerceVal(L),
                IF r.coerce = FALSE THEN rval ELSE coerceVal(rval))

\* the column names a rule resolved: null and undefined dropped, the rest as strings
ColNames(v) ==
    LET a == SelectSeq(ensureArray(v), LAMBDA c : ~IsNullish(c))
    IN  [j \in 1..Len(a) |-> ToStr(a[j])]

\* [v |-> left, log |-> more] with the log of an earlier part in front
Prepend(log, res) == [res EXCEPT !.log = log \o @]

\* lines 599-604: the rule passes if any listed column satisfies the
\* comparator; looking a column up in a null or undefined row throws
\* a faulty variant of RuleOnColumns: a missing column is compared as an
\* undefined cell
RuleOnColumnsReadsMissing(r, row, colNames, rhs) ==
    IF IsNullish(row) THEN [v |-> FALSE, threw |-> TRUE, log |-> rhs.log]
    ELSE [v |-> \E j \in 1..Len(colNames) : compare(r, Get(row, colNames[j]), rhs.v),
          threw |-> FALSE, log |-> rhs.log]

RuleOnColumns(r, row, colNames, rhs) ==
    IF IsNullish(row) THEN [v |-> FALSE, threw |-> TRUE, log |-> rhs.log]
    ELSE [v |-> \E j \in 1..Len(colNames) :
                   /\ HasOwn(row, colNames[j])
                   /\ compare(r, Get(row, colNames[j]), rhs.v),
          threw |-> FALSE, log |-> rhs.log]

\* a faulty variant of RuleWithColumn: the right side is resolved before the
\* column names are looked at
RuleWithColumnResolvesFirst(msg, ctx, r, row, sheet, i, col) ==
    Prepend(col.log,
            IF ColNames(col.v) = <<>>
            THEN [v |-> FALSE, threw |-> FALSE,
                  log |-> resolveDynamic(msg, ctx, r.rhs, r.rhsType, row, Str(sheet),
                                         "rhs", i).log]
            ELSE RuleOnColumns(r, row, ColNames(col.v),
                     resolveDynamic(msg, ctx, r.rhs, r.rhsType, row, Str(sheet), "rhs", i)))

\* lines 562-568: no column resolved makes the rule false, else the right
\* side is resolved once
RuleWithColumn(msg, ctx, r, row, sheet, i, col) ==
    IF ColNames(col.v) = <<>>
    THEN [v |-> FALSE, threw |-> FALSE, log |-> col.log]
    ELSE Prepend(col.log,
                 RuleOnColumns(r, row, ColNames(col.v),
                     resolveDynamic(msg, ctx, r.rhs, r.rhsType, row, Str(sheet), "rhs", i)))

\* lines 551-558: a JSONata rule, given the outcome of the evaluation
RuleExpr(out, i) ==
    [v |-> out.ok /\ Truthy(out.v), threw |-> FALSE,
     log |-> <<Ev("ruleExpr", i, "jsonata", out.ok, "evalJSONata")>>]

\* lines 548-561: a rule that does not apply to the sheet is true
RuleApplied(msg, ctx, r, row, sheet, i, app) ==
    IF ~app.v THEN [v |-> TRUE, threw |-> FALSE, log |-> app.log]
    ELSE IF r.op = "jsonata"
    THEN Prepend(app.log, RuleExpr(evalJSONata(sanitizeExpr(r.rhs), row, Str(sheet)), i))
    ELSE Prepend(app.log,
                 RuleWithColumn(msg, ctx, r, row, sheet, i,
                     resolveDynamic(msg, ctx, r.col, r.colType, row, Str(sheet), "col", i)))

\* evalRule, the closure of rowPasses: [v, threw, log]
evalRule(msg, ctx, r, row, sheet, i) ==
    RuleApplied(msg, ctx, r, row, sheet, i, ruleAppliesTo(r, sheet, row, i))

\* the loops of rowPasses over rules[i..]: stop at the first passing rule
\* under OR, at the first failing rule otherwise
RECURSIVE RulesFrom(_, _, _, _, _, _, _)
\* a faulty variant of RulesAfter: a failing rule does not end the AND loop
RulesAfterIgnoresFailure(msg, ctx, rules, logic, row, sheet, i, one) ==
    IF one.threw \/ (logic = "OR" /\ one.v) THEN one
    ELSE Prepend(one.log, RulesFrom(msg, ctx, rules, logic, row, sheet, i + 1))

RulesAfter(msg, ctx, rules, logic, row, sheet, i, one) ==
    IF one.threw \/ (logic = "OR" /\ one.v) \/ (logic # "OR" /\ ~one.v) THEN one
    ELSE Prepend(one.log, RulesFrom(msg, ctx, rules, logic, row, sheet, i + 1))

\* a faulty variant of RulesFrom: the OR loop falls through to true
RulesFromPassAtEnd(msg, ctx, rules, logic, row, sheet, i) ==
    IF i > Len(rules)
    THEN [v |-> TRUE, threw |-> FALSE, log |-> <<>>]
    ELSE RulesAfter(msg, ctx, rules, logic, row, sheet, i,
                    evalRule(msg, ctx, rules[i], row, sheet, i))

RulesFrom(msg, ctx, rules, logic, row, sheet, i) ==
    IF i > Len(rules)
    THEN [v |-> logic # "OR", threw |-> FALSE, log |-> <<>>]
    ELSE RulesAfter(msg, ctx, rules, logic, row, sheet, i,
                    evalRule(msg, ctx, rules[i], row, sheet, i))

\* rowPasses: [v, threw, log]
rowPasses(cfg, msg, ctx, row, sheet) ==
    IF Len(cfg.rules) = 0 THEN [v |-> TRUE, threw |-> FALSE, log |-> <<>>]
    ELSE RulesFrom(msg, ctx, cfg.rules, cfg.filterLogic, row, sheet, 1)

----------------------------------------------------------------------------
(* Select, rename, conditional rename                                      *)

\* Set.prototype.add on an insertion-ordered set
SetAdd(set, x) ==
    IF \E j \in 1..Len(set) : set[j] = x THEN set ELSE Append(set, x)

RECURSIVE SetAddAll(_, _)
SetAddAll(set, xs) ==
    IF xs = <<>> THEN set
    ELSE SetAddAll(IF Head(xs) # <<>> THEN SetAdd(set, Head(xs)) ELSE set, Tail(xs))

\* String(c) of every element
StrList(arr) == [j \in 1..Len(arr) |-> ToStr(arr[j])]

\* buildScopedColumnSet over selectList[i..]: [v, log], v the ordered set
RECURSIVE ColumnSetFrom(_, _, _, _, _, _)
ColumnSetAdd(msg, ctx, sheet, selectList, i, set, res) ==
    Prepend(res.log,
            ColumnSetFrom(msg, ctx, sheet, selectList, i + 1,
                          SetAddAll(set, StrList(ensureArray(res.v)))))

ColumnSetApplied(msg, ctx, sheet, selectList, i, set, app) ==
    Prepend(app.log,
            IF ~app.v THEN ColumnSetFrom(msg, ctx, sheet, selectList, i + 1, set)
            ELSE ColumnSetAdd(msg, ctx, sheet, selectList, i, set,
                     resolveDynamic(msg, ctx, selectList[i].col, selectList[i].colType,
                                    Null, Str(sheet), "selcol", i)))

ColumnSetFrom(msg, ctx, sheet, selectList, i, set) ==
    IF i > Len(selectList) THEN [v |-> set, log |-> <<>>]
    ELSE ColumnSetApplied(msg, ctx, sheet, selectList, i, set,
                          ruleAppliesTo(selectList[i], sheet, Null, i))

buildScopedColumnSet(msg, ctx, sheet, selectList) ==
    ColumnSetFrom(msg, ctx, sheet, selectList, 1, <<>>)

\* Array.prototype.find over the keys: the first key satisfying Test, or <<>>
\* (standing for undefined: pickSet treats both as "no key")
FindKey(keys, Test(_)) ==
    LET hit == {j \in 1..Len(keys) : Test(keys[j])}
    IN  IF hit = {} THEN <<>>
        ELSE keys[CHOOSE j \in hit : \A h \in hit : j <= h]

\* a faulty variant of PickTolerant: only the exact lookup is made
PickExactOnly(keys, want, k) == k

\* the tolerant lookup of pickSet, tried when the exact one found no key k
PickTolerant(keys, want, k) ==
    IF k # <<>> THEN k
    ELSE FindKey(keys, LAMBDA x : ToLowerCase(Trim(x)) = ToLowerCase(Trim(want)))

\* the key pickSet selects for one wanted name: exact, else trimmed and lower-cased
PickKey(keys, want) == PickTolerant(keys, want, FindKey(keys, LAMBDA x : x = want))

\* if (k) out[k] = row[k]
PickInto(out, row, k) == IF k # <<>> THEN Put(out, k, Get(row, k)) ELSE out

RECURSIVE PickFrom(_, _, _, _)
PickFrom(row, set, i, out) ==
    IF i > Len(set) THEN out
    ELSE PickFrom(row, set, i + 1, PickInto(out, row, PickKey(Keys(row), set[i])))

pickSet(row, set) == PickFrom(row, set, 1, Obj(<<>>))

omitSet(row, set) ==
    LET dropExact == {set[j] : j \in 1..Len(set)}
        dropNorm  == {ToLowerCase(Trim(set[j])) : j \in 1..Len(set)}
    IN  Obj(SelectSeq(Entries(row),
                      LAMBDA en : /\ en.k \notin dropExact
                                  /\ ToLowerCase(Trim(en.k)) \notin dropNorm))

\* lines 679-683: one pair of the mapping
RenameOne(out, from, to) ==
    IF from = <<>> \/ to = <<>> \/ from = to \/ ~HasOwn(out, from) THEN out
    ELSE Delete(Put(out, to, Get(out, from)), from)

\* Math.min(i, arr.length - 1), as an index from 1
Clamp(arr, i) == IF i < Len(arr) - 1 THEN i + 1 ELSE Len(arr)

\* the pairwise mapping of renameWithList for pairs i..n-1 (0-based, as in the code)
RECURSIVE RenamePairs(_, _, _, _, _)
RenamePairs(out, fromArr, toArr, i, n) ==
    IF i >= n THEN out
    ELSE RenamePairs(RenameOne(out, fromArr[Clamp(fromArr, i)], toArr[Clamp(toArr, i)]),
                     fromArr, toArr, i + 1, n)

\* a faulty variant of RenameMapped: the pairs stop at the end of the shorter list
RenameMappedShortest(out, fromArr, toArr) ==
    IF Len(fromArr) > 0 /\ Len(toArr) > 0
    THEN RenamePairs(out, fromArr, toArr, 0,
                     IF Len(fromArr) < Len(toArr) THEN Len(fromArr) ELSE Len(toArr))
    ELSE out

\* lines 674-685: the mapping of one entry, on the names it resolved
RenameMapped(out, fromArr, toArr) ==
    IF Len(fromArr) > 0 /\ Len(toArr) > 0
    THEN RenamePairs(out, fromArr, toArr, 0,
                     IF Len(fromArr) > Len(toArr) THEN Len(fromArr) ELSE Len(toArr))
    ELSE out

\* renameWithList over list[i..]: [v, log]; scopes and names are resolved
\* against the row the stage received, renames act on the row built so far
RECURSIVE RenameFrom(_, _, _, _, _, _, _)
RenameResolved(msg, ctx, row, sheet, list, i, out, fromRes, toRes) ==
    Prepend(fromRes.log \o toRes.log,
            RenameFrom(msg, ctx, row, sheet, list, i + 1,
                       RenameMapped(out, StrList(ensureArray(fromRes.v)),
                                         StrList(ensureArray(toRes.v)))))

RenameApplied(msg, ctx, row, sheet, list, i, out, app) ==
    Prepend(app.log,
            IF ~app.v THEN RenameFrom(msg, ctx, row, sheet, list, i + 1, out)
            ELSE RenameResolved(msg, ctx, row, sheet, list, i, out,
                     resolveDynamic(msg, ctx, list[i].from, list[i].fromType, row,
                                    Str(sheet), "from", i),
                     resolveDynamic(msg, ctx, list[i].to, list[i].toType, row,
                                    Str(sheet), "to", i)))

RenameFrom(msg, ctx, row, sheet, list, i, out) ==
    IF i > Len(list) THEN [v |-> out, log |-> <<>>]
    ELSE RenameApplied(msg, ctx, row, sheet, list, i, out,
                       ruleAppliesTo(list[i], sheet, row, i))

renameWithList(msg, ctx, row, sheet, list) ==
    RenameFrom(msg, ctx, row, sheet, list, 1, Spread(row))

\* the switch of conditionTrue, on the coerced operands
ConditionOn(op, L, R) ==
    CASE op = "=="  -> LooseEq(L, R)
      [] op = "!="  -> ~LooseEq(L, R)
      [] op = "contains"  ->
            IF IsString(L) /\ IsString(R) THEN Includes(L.s, R.s) ELSE FALSE
      [] op = "!contains" ->
            IF IsString(L) /\ IsString(R) THEN ~Includes(L.s, R.s) ELSE TRUE
      [] op = "regex" -> RegExpCompiles(ToStr(R)) /\ RegExpTest(ToStr(R), ToStr(L))
      [] op = "isEmpty"  -> isEmpty(L)
      [] op = "!isEmpty" -> ~isEmpty(L)
      [] OTHER -> FALSE

ConditionResolved(op, lhs, rhs) ==
    [v |-> ConditionOn(op, coerceVal(lhs.v), coerceVal(rhs.v)),
     log |-> lhs.log \o rhs.log]

\* conditionTrue: [v, log]; the condition reads the message and the context
\* stores, with no row and no sheet bound
conditionTrue(cfg, msg, ctx) ==
    ConditionResolved(cfg.conditionalRename.op,
        resolveDynamic(msg, ctx, cfg.conditionalRename.whenLhs,
                       cfg.conditionalRename.whenLhsType, Undefined, Undefined,
                       "condLhs", 0),
        resolveDynamic(msg, ctx, cfg.conditionalRename.rhs,
                       cfg.conditionalRename.rhsType, Undefined, Undefined,
                       "condRhs", 0))

----------------------------------------------------------------------------
(* Output                                                                  *)

\* the value set at a path of nested objects, missing levels created
RECURSIVE SetPath(_, _, _)
SetPath(o, parts, value) ==
    LET base == IF o.t = "object" THEN o ELSE Obj(<<>>)
    IN  IF Len(parts) = 1 THEN Put(base, parts[1], value)
        ELSE Put(base, parts[1], SetPath(Get(base, parts[1]), Tail(parts), value))

xlsxFilterKey == <<"x", "l", "s", "x", "F", "i", "l", "t", "e", "r">>

\* setOutput: the message and the context stores after the write, [msg, ctx]
setOutput(msg, ctx, value, scope, pathStr) ==
    IF scope \notin {"flow", "global"}
    THEN [msg |-> SetPath(msg, SplitFilter(pathStr, "."), value), ctx |-> ctx]
    ELSE LET parts == SplitFilter(pathStr, ".")
             store == ctx[scope]
             after == IF Trim(pathStr) = <<>> \/ parts = <<>>
                      THEN Put(store, xlsxFilterKey, value)
                      ELSE SetPath(store, parts, value)
         IN  [msg |-> msg, ctx |-> [ctx EXCEPT ![scope] = after]]

kRatio == <<"f", "i", "l", "t", "e", "r", "e", "d", "R", "a", "t", "i", "o">>

\* rowOut / rowIn, a quotient kept as its two terms
Ratio(num, den) == [t |-> "ratio", num |-> num, den |-> den]

\* a faulty variant of SummaryOf: the ratio of a batch without rows is left out
SummaryOfNoRatio(s) ==
    Obj(<<Ent(<<"f", "i", "l", "e", "C", "o", "u", "n", "t">>, Num(s.fileCount)),
          Ent(<<"s", "h", "e", "e", "t", "C", "o", "u", "n", "t">>, Num(s.sheetCount)),
          Ent(<<"r", "o", "w", "I", "n">>, Num(s.rowIn)),
          Ent(<<"r", "o", "w", "O", "u", "t">>, Num(s.rowOut))>>
        \o (IF s.rowIn # 0 THEN <<Ent(kRatio, Ratio(s.rowOut, s.rowIn))>> ELSE <<>>))

\* the summary and rules objects of the output
SummaryOf(s) ==
    Obj(<<Ent(<<"f", "i", "l", "e", "C", "o", "u", "n", "t">>, Num(s.fileCount)),
          Ent(<<"s", "h", "e", "e", "t", "C", "o", "u", "n", "t">>, Num(s.sheetCount)),
          Ent(<<"r", "o", "w", "I", "n">>, Num(s.rowIn)),
          Ent(<<"r", "o", "w", "O", "u", "t">>, Num(s.rowOut)),
          Ent(kRatio, IF s.rowIn # 0 THEN Ratio(s.rowOut, s.rowIn) ELSE Null)>>)

RulesOf(cfg) ==
    Obj(<<Ent(<<"l", "o", "g", "i", "c">>,
              Str(IF cfg.filterLogic = "OR" THEN <<"O", "R">> ELSE <<"A", "N", "D">>)),
          Ent(<<"c", "o", "u", "n", "t">>, Num(Len(cfg.rules)))>>)

kData    == <<"d", "a", "t", "a">>
kFlat    == <<"_", "_", "f", "l", "a", "t">>
kFile    == <<"_", "f", "i", "l", "e">>
kSheet   == <<"_", "s", "h", "e", "e", "t">>
kSummary == <<"s", "u", "m", "m", "a", "r", "y">>
kRules   == <<"r", "u", "l", "e", "s">>

\* outObj
OutObj(s) ==
    LET data == IF s.rt.output.structure = "hierarchical" THEN s.resultMap
                ELSE IF HasOwn(s.resultMap, kFlat) THEN Get(s.resultMap, kFlat)
                ELSE Arr(<<>>)
        bare == Obj(<<Ent(kData, data)>>)
    IN  IF s.rt.output.includeSummary
        THEN Put(Put(bare, kSummary, SummaryOf(s)), kRules, RulesOf(s.rt))
        ELSE bare

----------------------------------------------------------------------------
(* The input handler, node.on("input")                                     *)
(*                                                                         *)
(* An invocation runs from one await on the expression evaluator to the    *)
(* next without giving up the thread.  Each action below is one such piece *)
(* of the handler; an action that evaluated an expression leaves the       *)
(* thread free at its end, any other keeps it for the invocation's next    *)
(* action.  Messages are numbered in the order they arrive.  An evaluation  *)
(* is the host's and may take any time: while an invocation waits for one, *)
(* the runtime may deliver the next message, resume another invocation or  *)
(* run another node of the flow.                                           *)

\* the number of invocations of the handler a run follows
NBatches == 2

Batches == 1..NBatches

\* the locals of an invocation that has not started
Idle ==
    [pc |-> "idle", msg |-> Undefined, rt |-> Undefined,
     incSheet |-> safeRegex(<<>>), excSheet |-> safeRegex(<<>>),
     files |-> <<>>, fi |-> 0, file |-> <<>>, sheets |-> <<>>, si |-> 0,
     sheetName |-> <<>>, rows |-> <<>>, ri |-> 0,
     filtered |-> <<>>, transformed |-> <<>>, refs |-> <<>>,
     resultMap |-> Obj(<<>>),
     fileCount |-> 0, sheetCount |-> 0, rowIn |-> 0, rowOut |-> 0,
     condEvals |-> 0, condTrue |-> <<>>, stages |-> <<>>,
     sent |-> 0, errors |-> 0, done |-> "no"]

Started(b) == st[b].pc \notin {"idle", "done", "failed"}

\* the invocation may take its next step: it holds the thread, or the thread
\* is free and the evaluation it waits for has called back
CanRun(b) == running = b \/ (running = 0 /\ Started(b))

\* the thread after a step that made the resolutions of log
Yield(b, log) == IF Suspends(log) THEN 0 ELSE b

StatusAfter(log) == IF Diagnosed(log) THEN "JSONata ERR" ELSE status

\* lines 387-388: the reports of the error of an invocation, one for each
\* node.error(err, msg) and one for done(err), the completion callback that
\* hands the error to the runtime
Reports(s) == s.errors + (IF s.done = "error" THEN 1 ELSE 0)

\* the catch block of the handler: red status, node.error(err, msg), done(err)
Fail(b, log) ==
    /\ st' = [st EXCEPT ![b] = [@ EXCEPT !.pc = "failed", !.errors = @ + 1,
                                         !.done = "error"]]
    /\ status' = "error"
    /\ running' = 0
    /\ lastLog' = log
    /\ UNCHANGED <<node, disk, watcher, rt, context, inbox>>

\* lines 263-281: the configuration snapshot, the input read and its check,
\* the sheet patterns, the counters
Input(b) ==
    /\ running = 0
    /\ st[b].pc = "idle"
    /\ b <= Len(inbox)
    /\ \A a \in Batches : a < b => st[a].pc # "idle"
    /\ LET m == inbox[b]
           inputData == deepGet(m, context, rt.inputPathType, rt.inputPath)
           s0 == [st[b] EXCEPT !.msg = m, !.rt = rt]
       IN  IF ~Truthy(inputData) \/ ~TypeofObject(inputData)
                \/ ~Truthy(Get(inputData, kData))
             THEN /\ st' = [st EXCEPT ![b] = [s0 EXCEPT !.pc = "failed",
                                    !.errors = @ + 1, !.done = "error"]]
                  /\ status' = "error"
                  /\ running' = 0
             ELSE /\ st' = [st EXCEPT ![b] = [s0 EXCEPT
                                    !.pc = "files",
                                    !.incSheet = safeRegex(rt.includeSheetRegex),
                                    !.excSheet = safeRegex(rt.excludeSheetRegex),
                                    !.files = Entries(Get(inputData, kData)),
                                    !.fi = 1]]
                  /\ status' = "processing"
                  /\ running' = b
    /\ lastLog' = <<>>
    /\ UNCHANGED <<node, disk, watcher, rt, context, inbox>>

\* a faulty variant of isLockFile: the whole name is tested, not its base name
isLockFileByName(file) == StartsWith(file, <<"~", "$">>)

\* lines 285-286: the file is an Office lock file
isLockFile(file) == StartsWith(Basename(file), <<"~", "$">>)

\* lines 283-288: the next file; lock files are skipped
NextFile(b) ==
    /\ CanRun(b)
    /\ st[b].pc = "files"
    /\ LET s == st[b] IN
       IF s.fi > Len(s.files)
       THEN st' = [st EXCEPT ![b] = [s EXCEPT !.pc = "output"]]
       ELSE LET file == s.files[s.fi].k
                sheets == s.files[s.fi].v
            IN  IF isLockFile(file)
                THEN st' = [st EXCEPT ![b] = [s EXCEPT !.fi = @ + 1]]
                ELSE st' = [st EXCEPT ![b] = [s EXCEPT
                               !.pc = "sheets", !.file = file,
                               !.fileCount = @ + 1,
                               !.sheets = IF Truthy(sheets) THEN Entries(sheets) ELSE <<>>,
                               !.si = 1]]
    /\ running' = b
    /\ lastLog' = <<>>
    /\ UNCHANGED <<node, disk, watcher, rt, context, status, inbox>>

\* lines 290-298: the next sheet of the file
\* a faulty variant of RowInAfter: the length is added before the array check
RowInBeforeArrayCheck(rowIn, rows) ==
    rowIn + (IF IsArray(rows) THEN Len(rows.e)
             ELSE IF rows.t = "string" THEN Len(rows.s) ELSE 0)

\* lines 294-295: rowIn counts the rows of a sheet that is an array
RowInAfter(rowIn, rows) == IF IsArray(rows) THEN rowIn + Len(rows.e) ELSE rowIn

NextSheet(b) ==
    /\ CanRun(b)
    /\ st[b].pc = "sheets"
    /\ LET s == st[b] IN
       IF s.si > Len(s.sheets)
       THEN st' = [st EXCEPT ![b] = [s EXCEPT !.pc = "files", !.fi = @ + 1,
                                              !.sheets = <<>>, !.si = 0]]
       ELSE LET sheetName == s.sheets[s.si].k
                rows == s.sheets[s.si].v
            IN  IF ~passNameFilters(sheetName, s.incSheet, s.excSheet)
                THEN st' = [st EXCEPT ![b] = [s EXCEPT !.si = @ + 1]]
                ELSE IF ~IsArray(rows)
                THEN st' = [st EXCEPT ![b] = [s EXCEPT !.si = @ + 1,
                                                       !.sheetCount = @ + 1,
                                                       !.rowIn = RowInAfter(@, rows)]]
                ELSE st' = [st EXCEPT ![b] = [s EXCEPT
                               !.pc = "filter", !.sheetName = sheetName,
                               !.sheetCount = @ + 1,
                               !.rows = rows.e, !.rowIn = RowInAfter(@, rows),
                               !.filtered = <<>>, !.transformed = <<>>,
                               !.refs = <<>>,
                               !.ri = 1, !.stages = <<>>]]
    /\ running' = b
    /\ lastLog' = <<>>
    /\ UNCHANGED <<node, disk, watcher, rt, context, status, inbox>>

\* the stages a sheet went through, each named once
Mark(stages, name) ==
    IF stages # <<>> /\ stages[Len(stages)] = name THEN stages
    ELSE Append(stages, name)

\* where the handler goes after a stage, for n transformed rows: a stage
\* that is switched off, or has no row to await on, is passed over
AfterCond(cfg, n) ==
    IF Len(cfg.deriveList) > 0 /\ n > 0 THEN "derive" ELSE "emit"

AfterRename(cfg, n) ==
    IF cfg.conditionalRename.enabled THEN "cond" ELSE AfterCond(cfg, n)

\* a faulty variant of AfterSelect: the static rename stage is passed over
AfterSelectSkipsRename(cfg, n) == AfterRename(cfg, n)

AfterSelect(cfg, n) ==
    IF Len(cfg.renameList) > 0 /\ n > 0 THEN "rename" ELSE AfterRename(cfg, n)

\* Which object a row of the pipeline is: the index, in the sheet's array, of
\* the input row it is, or 0 for an object the handler allocated itself.
\* a faulty variant of CopyRef: the rows that passed are worked on themselves
SameObject(ref) == ref

\* line 306: `{ ...r }` allocates a new object for each row that passed
CopyRef(ref) == 0

\* a faulty variant of Snapshot: every step reads node.rt anew
NodeRt(s) == rt

\* line 263: `const rt`, the configuration the invocation works with, taken
\* once when it starts
Snapshot(s) == s.rt

\* a faulty variant of push: the row goes to the front of the array
unshift(arr, x) == <<x>> \o arr

\* line 301: filtered.push(row)
push(arr, x) == Append(arr, x)

\* lines 299-301: one row of the filter loop; the row itself is pushed
FilterRow(b) ==
    /\ CanRun(b)
    /\ st[b].pc = "filter"
    /\ st[b].ri <= Len(st[b].rows)
    /\ LET s == st[b]
           row == s.rows[s.ri]
           res == rowPasses(Snapshot(s), s.msg, context, row, s.sheetName)
       IN  IF res.threw THEN Fail(b, res.log)
           ELSE /\ st' = [st EXCEPT ![b] = [s EXCEPT
                             !.filtered = IF res.v THEN push(@, row) ELSE @,
                             !.refs = IF res.v THEN push(@, s.ri) ELSE @,
                             !.ri = @ + 1,
                             !.stages = Mark(@, "filter")]]
                /\ status' = StatusAfter(res.log)
                /\ running' = Yield(b, res.log)
                /\ lastLog' = res.log
                /\ UNCHANGED <<node, disk, watcher, rt, context, inbox>>

\* lines 306-316: the copies of the rows that passed, and select keep/drop
Select(b) ==
    /\ CanRun(b)
    /\ st[b].pc = "filter"
    /\ st[b].ri > Len(st[b].rows)
    /\ LET s == st[b]
           cfg == Snapshot(s)
           copies == [j \in 1..Len(s.filtered) |-> Spread(s.filtered[j])]
           on == cfg.selectMode # "none" /\ Len(cfg.selectList) > 0
           colSet == IF on
                     THEN buildScopedColumnSet(s.msg, context, s.sheetName, cfg.selectList)
                     ELSE [v |-> <<>>, log |-> <<>>]
           picks == on /\ cfg.selectMode \in {"keep", "drop"} /\ Len(colSet.v) > 0
           out == IF on /\ cfg.selectMode = "keep" /\ Len(colSet.v) > 0
                  THEN [j \in 1..Len(copies) |-> pickSet(copies[j], colSet.v)]
                  ELSE IF on /\ cfg.selectMode = "drop" /\ Len(colSet.v) > 0
                  THEN [j \in 1..Len(copies) |-> omitSet(copies[j], colSet.v)]
                  ELSE copies
       IN  /\ st' = [st EXCEPT ![b] = [s EXCEPT
                        !.pc = AfterSelect(cfg, Len(out)),
                        !.transformed = out,
                        !.refs = [j \in 1..Len(out) |->
                                    IF picks THEN 0 ELSE CopyRef(s.refs[j])],
                        !.ri = 1,
                        !.stages = IF on THEN Mark(@, "select") ELSE @]]
           /\ status' = StatusAfter(colSet.log)
           /\ running' = Yield(b, colSet.log)
           /\ lastLog' = colSet.log
    /\ UNCHANGED <<node, disk, watcher, rt, context, inbox>>

\* lines 319-325: one row of the static rename loop
RenameRow(b) ==
    /\ CanRun(b)
    /\ st[b].pc = "rename"
    /\ LET s == st[b]
           res == renameWithList(s.msg, context, s.transformed[s.ri], s.sheetName,
                                 Snapshot(s).renameList)
       IN  /\ st' = [st EXCEPT ![b] = [s EXCEPT
                        !.transformed[s.ri] = res.v,
                        !.refs[s.ri] = 0,
                        !.ri = IF s.ri < Len(s.transformed) THEN s.ri + 1 ELSE 1,
                        !.pc = IF s.ri < Len(s.transformed) THEN "rename"
                               ELSE AfterRename(Snapshot(s), Len(s.transformed)),
                        !.stages = Mark(@, "rename")]]
           /\ status' = StatusAfter(res.log)
           /\ running' = Yield(b, res.log)
           /\ lastLog' = res.log
    /\ UNCHANGED <<node, disk, watcher, rt, context, inbox>>

\* line 328: the condition of the conditional rename
Condition(b) ==
    /\ CanRun(b)
    /\ st[b].pc = "cond"
    /\ LET s == st[b]
           c == conditionTrue(Snapshot(s), s.msg, context)
           n == Len(s.transformed)
       IN  /\ st' = [st EXCEPT ![b] = [s EXCEPT
                        !.pc = IF c.v /\ n > 0 /\ Len(Snapshot(s).conditionalRename.list) > 0
                               THEN "crename" ELSE AfterCond(Snapshot(s), n),
                        !.ri = 1,
                        !.condEvals = @ + 1,
                        !.condTrue = Append(@, c.v)]]
           /\ status' = StatusAfter(c.log)
           /\ running' = Yield(b, c.log)
           /\ lastLog' = c.log
    /\ UNCHANGED <<node, disk, watcher, rt, context, inbox>>

\* lines 329-333: one row of the conditional rename loop
CondRenameRow(b) ==
    /\ CanRun(b)
    /\ st[b].pc = "crename"
    /\ LET s == st[b]
           res == renameWithList(s.msg, context, s.transformed[s.ri], s.sheetName,
                                 Snapshot(s).conditionalRename.list)
       IN  /\ st' = [st EXCEPT ![b] = [s EXCEPT
                        !.transformed[s.ri] = res.v,
                        !.refs[s.ri] = 0,
                        !.ri = IF s.ri < Len(s.transformed) THEN s.ri + 1 ELSE 1,
                        !.pc = IF s.ri < Len(s.transformed) THEN "crename"
                               ELSE AfterCond(Snapshot(s), Len(s.transformed)),
                        !.stages = Mark(@, "crename")]]
           /\ status' = StatusAfter(res.log)
           /\ running' = Yield(b, res.log)
           /\ lastLog' = res.log
    /\ UNCHANGED <<node, disk, watcher, rt, context, inbox>>

\* a faulty variant of DeriveFrom: a failing entry ends the row's derive loop
RECURSIVE DeriveFromStopsAtFailure(_, _, _, _, _)
DeriveFromStopsAtFailure(deriveList, r, sheet, i, out) ==
    IF i > Len(deriveList) THEN [v |-> out, log |-> <<>>]
    ELSE LET d == deriveList[i]
             val == evalJSONata(sanitizeExpr(d.expr), r, Str(sheet))
             more == IF val.ok
                     THEN DeriveFromStopsAtFailure(deriveList, r, sheet, i + 1,
                                                   Put(out, d.col, val.v))
                     ELSE [v |-> out, log |-> <<>>]
         IN  [more EXCEPT !.log =
                <<Ev("derive", i, "jsonata", val.ok, "evalJSONata")>> \o @]

\* lines 340-351: the derive entries d[i..] applied to out, read from row r: [v, log]
RECURSIVE DeriveFrom(_, _, _, _, _)
DeriveFrom(deriveList, r, sheet, i, out) ==
    IF i > Len(deriveList) THEN [v |-> out, log |-> <<>>]
    ELSE LET d == deriveList[i]
         IN  IF d.col = <<>> \/ d.exprType # "jsonata"
             THEN DeriveFrom(deriveList, r, sheet, i + 1, out)
             ELSE LET val == evalJSONata(sanitizeExpr(d.expr), r, Str(sheet))
                      more == DeriveFrom(deriveList, r, sheet, i + 1,
                                         IF val.ok THEN Put(out, d.col, val.v) ELSE out)
                  IN  [more EXCEPT !.log =
                         <<Ev("derive", i, "jsonata", val.ok, "evalJSONata")>> \o @]

\* lines 337-355: one row of the derive loop
DeriveRow(b) ==
    /\ CanRun(b)
    /\ st[b].pc = "derive"
    /\ LET s == st[b]
           r == s.transformed[s.ri]
           res == DeriveFrom(Snapshot(s).deriveList, r, s.sheetName, 1, Spread(r))
       IN  /\ st' = [st EXCEPT ![b] = [s EXCEPT
                        !.transformed[s.ri] = res.v,
                        !.refs[s.ri] = 0,
                        !.ri = IF s.ri < Len(s.transformed) THEN s.ri + 1 ELSE 1,
                        !.pc = IF s.ri < Len(s.transformed) THEN "derive" ELSE "emit",
                        !.stages = Mark(@, "derive")]]
           /\ status' = StatusAfter(res.log)
           /\ running' = Yield(b, res.log)
           /\ lastLog' = res.log
    /\ UNCHANGED <<node, disk, watcher, rt, context, inbox>>

\* a faulty variant of FlatRow: the tags are written after the row's columns
FlatRowTagsLast(file, sheetName, rr) ==
    Put(Put(Spread(rr), kFile, Str(file)), kSheet, Str(sheetName))

\* line 365: the flat row of a transformed row
FlatRow(file, sheetName, rr) ==
    LET head == Obj(<<Ent(kFile, Str(file)), Ent(kSheet, Str(sheetName))>>)
        e == Entries(rr)
        F[j \in 0..Len(e)] == IF j = 0 THEN head ELSE Put(F[j - 1], e[j].k, e[j].v)
    IN  F[Len(e)]

\* a faulty variant of Emit: each sheet's rows are published to the output
\* target as soon as the sheet is done
EmitAndPublish(b) ==
    /\ CanRun(b)
    /\ st[b].pc = "emit"
    /\ LET s == st[b]
           part == Put(s.resultMap, s.file,
                       Obj(<<Ent(s.sheetName, Arr(s.transformed))>>))
       IN  /\ st' = [st EXCEPT ![b] = [s EXCEPT
                        !.pc = "sheets", !.si = @ + 1, !.ri = 0,
                        !.rowOut = @ + Len(s.transformed),
                        !.resultMap = part]]
           /\ context' = setOutput(s.msg, context, Obj(<<Ent(kData, part)>>),
                                   Snapshot(s).output.targetType, Snapshot(s).output.targetPath).ctx
    /\ running' = b
    /\ lastLog' = <<>>
    /\ UNCHANGED <<node, disk, watcher, rt, status, inbox>>

\* lines 357-367: the sheet's rows join the result
Emit(b) ==
    /\ CanRun(b)
    /\ st[b].pc = "emit"
    /\ LET s == st[b]
           t == s.transformed
           hier == LET old == Get(s.resultMap, s.file)
                       fm == IF Truthy(old) THEN old ELSE Obj(<<>>)
                   IN  Put(s.resultMap, s.file, Put(fm, s.sheetName, Arr(t)))
           flat == LET old == Get(s.resultMap, kFlat)
                       fl == IF Truthy(old) THEN old.e ELSE <<>>
                   IN  Put(s.resultMap, kFlat,
                           Arr(fl \o [j \in 1..Len(t) |-> FlatRow(s.file, s.sheetName, t[j])]))
       IN  st' = [st EXCEPT ![b] = [s EXCEPT
                     !.pc = "sheets", !.si = @ + 1, !.ri = 0,
                     !.rowOut = @ + Len(t),
                     !.resultMap = IF Snapshot(s).output.structure = "hierarchical"
                                   THEN hier ELSE flat]]
    /\ running' = b
    /\ lastLog' = <<>>
    /\ UNCHANGED <<node, disk, watcher, rt, context, status, inbox>>

\* lines 371-384: the output is written, the message is sent on
Output(b) ==
    /\ CanRun(b)
    /\ st[b].pc = "output"
    /\ LET s == st[b]
           w == setOutput(s.msg, context, OutObj(s), Snapshot(s).output.targetType,
                          Snapshot(s).output.targetPath)
       IN  /\ st' = [st EXCEPT ![b] = [s EXCEPT !.pc = "done", !.msg = w.msg,
                                                !.sent = @ + 1, !.done = "ok"]]
           /\ context' = w.ctx
    /\ status' = "rows"
    /\ running' = 0
    /\ lastLog' = <<>>
    /\ UNCHANGED <<node, disk, watcher, rt, inbox>>

\* another node of the flow writes the flag the configurations read from the
\* flow context; it can run only while no invocation holds the thread
kFlag == <<"f", "l", "a", "g">>

FlagValues == {Str(<<"0">>), Str(<<"1">>)}

ContextWrite ==
    /\ running = 0
    /\ \E v \in FlagValues :
         /\ Get(context.flow, kFlag) # v
         /\ context' = [context EXCEPT !.flow = Put(@, kFlag, v)]
    /\ UNCHANGED <<node, disk, watcher, rt, status, running, st, inbox, lastLog>>

----------------------------------------------------------------------------
(* Configurations and messages                                             *)

\* withDefaults({}): the schema with every field defaulted
DefaultSchema ==
    [inputPath |-> kData, inputPathType |-> "msg",
     includeSheetRegex |-> <<>>, excludeSheetRegex |-> <<>>,
     filterLogic |-> "AND", rules |-> <<>>,
     selectMode |-> "none", selectList |-> <<>>,
     renameList |-> <<>>,
     conditionalRename |->
        [enabled |-> FALSE, whenLhsType |-> "msg", whenLhs |-> <<>>, op |-> "==",
         rhsType |-> "str", rhs |-> <<>>, list |-> <<>>],
     deriveList |-> <<>>,
     output |-> [targetType |-> "msg",
                 targetPath |-> <<"f", "i", "l", "t", "e", "r", "e", "d">>,
                 structure |-> "hierarchical", includeSummary |-> TRUE]]

----------------------------------------------------------------------------
(* The config file: path rules, load, fallback, watcher                    *)

\* a JavaScript object with the fields present in it; {} has none
NoFields == [f \in {} |-> FALSE]

\* x ?? d for every field of d: the field of s when s has it, else the default
OrDefaults(s, d) == [f \in DOMAIN d |-> IF f \in DOMAIN s THEN s[f] ELSE d[f]]

\* schema.part?.field: the part of s, {} when s has none
Part(s, f) == IF f \in DOMAIN s THEN s[f] ELSE NoFields

\* withDefaults: the complete schema of a partial one (a list field that is
\* present is an array)
withDefaults(schema) ==
    [OrDefaults(schema, DefaultSchema) EXCEPT
        !.conditionalRename =
            OrDefaults(Part(schema, "conditionalRename"), DefaultSchema.conditionalRename),
        !.output = OrDefaults(Part(schema, "output"), DefaultSchema.output)]

\* config.f || d for a text (the empty text is falsy), for a word of the
\* editor's choice lists, and Array.isArray(config.f) ? config.f : []
OrText(config, f, d) == IF f \in DOMAIN config /\ config[f] # <<>> THEN config[f] ELSE d
OrWord(config, f, d) == IF f \in DOMAIN config /\ config[f] # "" THEN config[f] ELSE d
OrList(config, f) == IF f \in DOMAIN config THEN config[f] ELSE <<>>

\* embeddedToSchemaObj: the schema of the embedded editor configuration
embeddedToSchemaObj(config) ==
    withDefaults(
        [inputPath |-> OrText(config, "inputPath", kData),
         inputPathType |-> OrWord(config, "inputPathType", "msg"),
         includeSheetRegex |-> OrText(config, "includeSheetRegex", <<>>),
         excludeSheetRegex |-> OrText(config, "excludeSheetRegex", <<>>),
         filterLogic |-> OrWord(config, "filterLogic", "AND"),
         rules |-> OrList(config, "rules"),
         selectMode |-> OrWord(config, "selectMode", "none"),
         selectList |-> OrList(config, "selectList"),
         renameList |-> OrList(config, "renameList"),
         conditionalRename |->
            [enabled |-> "conditionalRenameEnabled" \in DOMAIN config
                           /\ config.conditionalRenameEnabled,
             whenLhsType |-> OrWord(config, "conditionalRenameWhenLhsType", "msg"),
             whenLhs |-> OrText(config, "conditionalRenameWhenLhs", <<>>),
             op |-> OrWord(config, "conditionalRenameOp", "=="),
             rhsType |-> OrWord(config, "conditionalRenameRhsType", "str"),
             rhs |-> OrText(config, "conditionalRenameRhs", <<>>),
             list |-> OrList(config, "conditionalRenameList")],
         deriveList |-> OrList(config, "deriveList"),
         output |->
            [targetType |-> OrWord(config, "outputTargetType", "msg"),
             targetPath |-> OrText(config, "outputTargetPath", DefaultSchema.output.targetPath),
             structure |-> OrWord(config, "structure", "hierarchical"),
             includeSummary |-> IF "includeSummary" \in DOMAIN config
                                THEN config.includeSummary ELSE TRUE]])

\* setRuntimeSchemaFromFile: withDefaults(fileObj?.schema || {})
setRuntimeSchemaFromFile(fileObj) == withDefaults(Part(fileObj, "schema"))

\* RED.settings.userDir, as path segments: /u
userDir == <<<<"u">>>>

\* path.normalize and path.join of an absolute path, segment by segment:
\* "." is dropped, ".." removes the segment before it
RECURSIVE ResolveSegments(_, _)
ResolveSegments(segs, done) ==
    IF segs = <<>> THEN done
    ELSE ResolveSegments(Tail(segs),
            IF Head(segs) = <<".">> THEN done
            ELSE IF Head(segs) = <<".", ".">>
            THEN SubSeq(done, 1, Len(done) - 1)
            ELSE Append(done, Head(segs)))

\* lines 69-74: the absolute path of rawPath, relative paths under userDir
AbsolutePath(rawPath) ==
    ResolveSegments(IF rawPath[1] = "/" THEN SplitFilter(rawPath, "/")
                    ELSE userDir \o SplitFilter(rawPath, "/"), <<>>)

\* path.extname of a base name: from its last dot, unless that dot comes first
Extname(base) ==
    LET dots == {i \in 2..Len(base) : base[i] = "."}
    IN  IF dots = {} THEN <<>>
        ELSE SubSeq(base, CHOOSE i \in dots : \A j \in dots : i >= j, Len(base))

\* lines 76-79: path.relative(userDir, abs) starts with ".."
OutsideUserDir(abs) ==
    \/ Len(abs) < Len(userDir)
    \/ SubSeq(abs, 1, Len(userDir)) # userDir
    \/ /\ Len(abs) > Len(userDir)
       /\ StartsWith(abs[Len(userDir) + 1], <<".", ".">>)

\* lines 76-84: the absolute path is under userDir and ends in .json
SafeAbsolute(abs) ==
    /\ ~OutsideUserDir(abs)
    /\ abs # <<>>
    /\ ToLowerCase(Extname(abs[Len(abs)])) = <<".", "j", "s", "o", "n">>

\* resolveSafePath: whether the path is accepted (it throws otherwise)
resolveSafePath(rawPath) ==
    /\ rawPath # <<>>
    /\ SafeAbsolute(AbsolutePath(rawPath))

\* the config file: absent, unreadable, or a text that parses as JSON to doc
\* or does not parse
File(kind, json, doc) == [kind |-> kind, json |-> json, doc |-> doc]

\* lines 206-213 of loadFileToRuntime: the path is safe, the file exists, is
\* read and parses
Loads(path, file) == resolveSafePath(path) /\ file.kind = "text" /\ file.json

\* lines 225-228 and 244-245 of startWatcher: the file is watched
startWatcher(n, file) ==
    /\ n.watchConfigFile /\ n.configFilePath # <<>>
    /\ resolveSafePath(n.configFilePath) /\ file.kind # "absent"

\* line 251: the node is locked to its config file
Locked(n) == n.useConfigFile /\ n.lockToFile /\ n.configFilePath # <<>>

\* a faulty variant of InitialSchema: a failed load leaves the defaults
InitialSchemaDefaults(n, file) ==
    IF Locked(n) /\ Loads(n.configFilePath, file)
    THEN setRuntimeSchemaFromFile(file.doc)
    ELSE IF Locked(n) THEN withDefaults(NoFields)
    ELSE embeddedToSchemaObj(n.config)

\* lines 250-259: the runtime schema after construction
InitialSchema(n, file) ==
    IF Locked(n) /\ Loads(n.configFilePath, file)
    THEN setRuntimeSchemaFromFile(file.doc)
    ELSE embeddedToSchemaObj(n.config)

\* lines 214 and 218: the status after construction
InitialStatus(n, file) ==
    IF ~Locked(n) THEN "none"
    ELSE IF Loads(n.configFilePath, file) THEN "config loaded"
    ELSE "config load failed"

\* the watcher: whether fs.watchFile is installed, whether the file changed
\* since its last poll, the debounce timeouts pending, the notifications
\* since the last reload, and the notifications the last reload served
InitialWatcher(n, file) ==
    [on |-> Locked(n) /\ startWatcher(n, file), stale |-> FALSE, pending |-> 0,
     burst |-> 0, served |-> 0]

\* the writes to the config file that a run follows
MaxEdits == 2

\* what a write can leave at the config path: nothing, a text that is not
\* JSON, a document with a partial schema, a document without a schema
FileAbsent == File("absent", FALSE, NoFields)
FileUnreadable == File("unreadable", FALSE, NoFields)
FileGarbage == File("text", FALSE, NoFields)
FileFlat == File("text", TRUE, [schema |-> [output |-> [structure |-> "flat"]]])
FileOr == File("text", TRUE, [schema |-> [filterLogic |-> "OR"]])
FileNoSchema == File("text", TRUE, [version |-> 1])

Writes == {FileAbsent, FileGarbage, FileFlat, FileOr, FileNoSchema}

\* the config file is written, removed or touched: by the admin endpoint
\* (lines 103-121) or by anything else; followed while the file is watched
FileChange ==
    /\ watcher.on
    /\ disk.edits < MaxEdits
    /\ \E f \in Writes : disk' = [file |-> f, edits |-> disk.edits + 1]
    /\ watcher' = [watcher EXCEPT !.stale = TRUE]
    /\ UNCHANGED <<node, rt, context, status, running, st, inbox, lastLog>>

\* a faulty variant of Debounce: the pending timeout is not cleared
DebounceKeepsTimer(pending) == pending + 1

\* lines 237-238: clearTimeout(timer); timer = setTimeout(...): the timeouts pending
Debounce(pending) == 1

\* lines 236-244: the poll of fs.watchFile finds the file changed and calls
\* onChange; a callback runs only while no invocation holds the thread
onChange ==
    /\ running = 0
    /\ watcher.on /\ watcher.stale
    /\ watcher' = [watcher EXCEPT !.stale = FALSE,
                                  !.pending = Debounce(@),
                                  !.burst = @ + 1]
    /\ UNCHANGED <<node, disk, rt, context, status, running, st, inbox, lastLog>>

\* a faulty variant of Reloaded: a reload takes the document for the schema
ReloadedWholeDocument(r, file, ok) ==
    IF ok THEN withDefaults(file.doc) ELSE r

\* loadFileToRuntime(false) in the timeout: the schema after it, ok its result
Reloaded(r, file, ok) ==
    IF ok THEN setRuntimeSchemaFromFile(file.doc) ELSE r

\* lines 239-243: a debounce timeout fires and reloads the file
Reload ==
    /\ running = 0
    /\ watcher.pending > 0
    /\ \E ok \in {Loads(node.configFilePath, disk.file)} :
          /\ rt' = Reloaded(rt, disk.file, ok)
          /\ status' = IF ok THEN "config reloaded" ELSE status
    /\ watcher' = [watcher EXCEPT !.pending = @ - 1, !.burst = 0, !.served = watcher.burst]
    /\ UNCHANGED <<node, disk, context, running, st, inbox, lastLog>>

Rule(scope, scopeType, col, colType, op, rhsType, rhs, cs, coerce) ==
    [sheetScope |-> scope, sheetScopeType |-> scopeType, col |-> col,
     colType |-> colType, op |-> op, rhsType |-> rhsType, rhs |-> rhs,
     caseSensitive |-> cs, coerce |-> coerce]

SelectEntry(scope, scopeType, col, colType) ==
    [sheetScope |-> scope, sheetScopeType |-> scopeType, col |-> col,
     colType |-> colType]

RenameEntry(scope, scopeType, from, fromType, to, toType) ==
    [sheetScope |-> scope, sheetScopeType |-> scopeType, from |-> from,
     fromType |-> fromType, to |-> to, toType |-> toType]

DeriveEntry(col, expr) == [col |-> col, exprType |-> "jsonata", expr |-> expr]

\* all sequences over S of length at most n
SeqsUpTo(S, n) == UNION {[1..k -> S] : k \in 0..n}

cA == <<"A">>
cB == <<"B">>
cC == <<"C">>
cX == <<"X">>
cY == <<"Y">>
cZ == <<"Z">>
sheet1 == <<"S", "1">>
sheet2 == <<"S", "2">>
book1 == <<"B", "1">>

\* rows: A is an amount, B a status
rowOK == Obj(<<Ent(cA, Str(<<"1", "0">>)), Ent(cB, Str(<<"O", "K">>))>>)
rowNO == Obj(<<Ent(cA, Str(<<"5">>)), Ent(cB, Str(<<"N", "O">>))>>)
rowC  == Obj(<<Ent(cA, Str(<<"9">>)), Ent(cC, Str(<<"x">>))>>)
rowTagged == Obj(<<Ent(kFile, Str(<<"z">>)), Ent(cA, Str(<<"1", "0">>))>>)

\* a message whose data path holds v
MsgOf(v) == Obj(<<Ent(kData, v)>>)

\* a message with a well-formed file map
MsgFiles(files) == MsgOf(Obj(<<Ent(kData, Obj(files))>>))

Sheets1(rows) == Obj(<<Ent(sheet1, Arr(rows))>>)

mGood ==
    MsgFiles(<<Ent(book1, Obj(<<Ent(sheet1, Arr(<<rowOK, rowNO>>)),
                                Ent(sheet2, Arr(<<rowC>>))>>))>>)

mLock ==
    MsgFiles(<<Ent(<<"~", "$", "B", "1">>, Sheets1(<<rowOK>>)),
               Ent(<<"d", "/", "~", "$", "B">>, Sheets1(<<rowNO>>)),
               Ent(<<"~", "$", "d", "/", "B">>, Sheets1(<<rowC>>)),
               Ent(book1, Sheets1(<<rowNO>>))>>)

mNull == MsgFiles(<<Ent(book1, Sheets1(<<rowOK, Null>>))>>)

mTagged == MsgFiles(<<Ent(book1, Sheets1(<<rowTagged, rowOK>>))>>)

mOdd ==
    MsgFiles(<<Ent(book1, Obj(<<Ent(sheet1, Str(<<"x">>)),
                               Ent(sheet2, Arr(<<rowOK>>))>>)),
               Ent(<<"B", "2">>, Null)>>)

GoodMessages == {mGood, mLock, mNull, mTagged, mOdd}

\* messages without a usable input object
NoInputMessages ==
    {Obj(<<>>), MsgOf(Num(5)), MsgOf(Obj(<<>>)),
     MsgOf(Obj(<<Ent(kData, Null)>>)), MsgOf(Obj(<<Ent(kData, Num(0))>>))}

\* messages whose data field is present and is not a map of files
NotMapMessages ==
    {MsgOf(Obj(<<Ent(kData, Num(5))>>)),
     MsgOf(Obj(<<Ent(kData, Str(<<"a", "b">>))>>)),
     MsgOf(Obj(<<Ent(kData, Arr(<<Sheets1(<<rowOK>>)>>))>>)),
     MsgOf(Obj(<<Ent(kData, Bool(TRUE))>>))}

Messages == GoodMessages \cup NoInputMessages \cup NotMapMessages

\* the longest rule list of the rule configurations
MaxRules == 2

rGe8    == Rule(<<>>, "str", cA, "str", ">=", "str", <<"8">>, FALSE, TRUE)
rEqOK   == Rule(<<>>, "str", cB, "str", "==", "str", <<"o", "k">>, FALSE, TRUE)
rScoped == Rule(sheet2, "str", cA, "str", "isEmpty", "str", <<>>, FALSE, TRUE)
rExpr   == Rule(<<>>, "str", <<>>, "str", "jsonata", "jsonata", xRowDot \o cC, FALSE, TRUE)
rBadCol == Rule(<<>>, "str", <<"(">>, "jsonata", "==", "str", <<"x">>, FALSE, TRUE)

RulePool == {rGe8, rEqOK, rScoped, rExpr, rBadCol}

\* every rule list up to MaxRules, under both logics
RuleConfigs ==
    {[DefaultSchema EXCEPT !.rules = rs, !.filterLogic = lg] :
        rs \in SeqsUpTo(RulePool, MaxRules), lg \in {"AND", "OR"}}

\* the conditional rename of the pipeline configurations: X becomes Y when
\* the flag of the flow context is 1
CondXY ==
    [enabled |-> TRUE, whenLhsType |-> "flow", whenLhs |-> kFlag, op |-> "==",
     rhsType |-> "str", rhs |-> <<"1">>,
     list |-> <<RenameEntry(<<>>, "str", cX, "str", cY, "str")>>]

\* select, rename, conditional rename and derive, switched on and off
PipelineConfigs ==
    {[DefaultSchema EXCEPT
        !.selectMode = sm, !.selectList = <<SelectEntry(<<>>, "str", sc, "str")>>,
        !.renameList = rl,
        !.conditionalRename = IF ce THEN CondXY ELSE @,
        !.deriveList = dl] :
        sm \in {"none", "keep", "drop"}, sc \in {cA, cX},
        rl \in {<<>>, <<RenameEntry(<<>>, "str", cA, "str", cX, "str")>>},
        ce \in BOOLEAN,
        dl \in {<<>>, <<DeriveEntry(cZ, xRowDot \o cY)>>,
                <<DeriveEntry(cZ, xUpper \o xRowDot \o cX \o <<")">>)>>}}

\* include and exclude patterns: none, one matching S1 only, one that does not compile
SheetPatterns == {<<>>, <<"1">>, <<"(">>}

PatternConfigs ==
    {[DefaultSchema EXCEPT !.includeSheetRegex = inc, !.excludeSheetRegex = exc] :
        inc \in SheetPatterns, exc \in SheetPatterns}

OutputConfigs ==
    {[DefaultSchema EXCEPT !.output =
         [targetType |-> tt, targetPath |-> tp, structure |-> sr, includeSummary |-> su]] :
        tt \in {"msg", "flow"},
        tp \in {DefaultSchema.output.targetPath, <<"o", ".", "r">>},
        sr \in {"hierarchical", "flat"}, su \in BOOLEAN}

\* flat output of rows that derive a column named _sheet
TagConfigs ==
    {[DefaultSchema EXCEPT
        !.deriveList = <<DeriveEntry(kSheet, <<"'", "q", "'">>)>>,
        !.output.structure = "flat"]}

\* a list literal of the expression language
xList(names) ==
    <<"[">> \o <<"'">> \o names[1] \o <<"'">>
    \o (IF Len(names) > 1 THEN <<",", "'">> \o names[2] \o <<"'">> ELSE <<>>)
    \o <<"]">>

\* one rename entry whose from and to are lists of one or two names
ClampConfigs ==
    {[DefaultSchema EXCEPT
        !.renameList = <<RenameEntry(<<>>, "str", xList(f), "jsonata",
                                     xList(t), "jsonata")>>] :
        f \in {<<cA, cB>>, <<cA>>}, t \in {<<cX>>, <<cX, cY>>}}

rowABC == Obj(<<Ent(cA, Str(<<"1">>)), Ent(cB, Str(<<"2">>)), Ent(cC, Str(<<"3">>))>>)

mWide == MsgFiles(<<Ent(book1, Sheets1(<<rowABC, rowC>>))>>)

ca == <<"a">>

\* a column named as the row has it, in another case, and with blanks around
WantedNames == {cA, ca, <<" ", "A", " ">>}

\* keep of one wanted column, a rule on one wanted column, or both
MatchConfigs ==
    {[DefaultSchema EXCEPT
        !.rules = IF ru THEN <<Rule(<<>>, "str", w, "str", "!isEmpty", "str", <<>>,
                                    FALSE, TRUE)>> ELSE <<>>,
        !.selectMode = IF ke THEN "keep" ELSE "none",
        !.selectList = <<SelectEntry(<<>>, "str", w, "str")>>] :
        w \in WantedNames, ru \in BOOLEAN, ke \in BOOLEAN}

rowBoth == Obj(<<Ent(ca, Str(<<"7">>)), Ent(cA, Str(<<"8">>))>>)

mCase == MsgFiles(<<Ent(book1, Sheets1(<<rowABC, rowBoth>>))>>)

\* keep of two wanted columns, in either order
KeepTwoConfigs ==
    {[DefaultSchema EXCEPT
        !.selectMode = "keep",
        !.selectList = <<SelectEntry(<<>>, "str", w1, "str"),
                         SelectEntry(<<>>, "str", w2, "str")>>] :
        w1 \in WantedNames, w2 \in WantedNames \cup {cB}}

\* an expression the evaluator rejects
xBad == <<"(">>

\* three derive entries, one of them failing: first, in the middle or last,
\* on a column the rows have or on a new one
DeriveConfigs ==
    {[DefaultSchema EXCEPT !.deriveList = dl] :
        dl \in UNION {
            LET bad == DeriveEntry(bc, xBad)
                g1 == DeriveEntry(cX, <<"'", "q", "'">>)
                g2 == DeriveEntry(cY, xRowDot \o cA)
            IN  {<<bad, g1, g2>>, <<g1, bad, g2>>, <<g1, g2, bad>>} : bc \in {cA, cZ}}}

kN == <<"n">>

\* rules whose column reference resolves to no names: a message property
\* that is absent, one that is null, an empty list, a failing expression
NoColRules ==
    {Rule(<<>>, "str", <<"n", "o">>, "msg", "==", "str", <<"x">>, FALSE, TRUE),
     Rule(<<>>, "str", kN, "msg", "==", "jsonata", xRowDot \o cA, FALSE, TRUE),
     Rule(<<>>, "str", <<"[", "]">>, "jsonata", "!=", "str", <<"x">>, FALSE, TRUE),
     rBadCol}

\* such a rule alone, or with a rule on column A before or after it
NoColConfigs ==
    {[DefaultSchema EXCEPT !.rules = rs, !.filterLogic = lg] :
        rs \in UNION {{<<nc>>, <<nc, rGe8>>, <<rGe8, nc>>} : nc \in NoColRules},
        lg \in {"AND", "OR"}}

\* a message whose property n is null
mHoles ==
    Obj(<<Ent(kData, Obj(<<Ent(kData, Obj(<<Ent(book1,
              Obj(<<Ent(sheet1, Arr(<<rowOK, rowNO>>)),
                    Ent(sheet2, Arr(<<rowC>>))>>))>>))>>)),
          Ent(kN, Null)>>)

\* one rule that orders column A against "8", with coercion on and off
OrderConfigs ==
    {[DefaultSchema EXCEPT
        !.rules = <<Rule(<<>>, "str", cA, "str", op, "str", <<"8">>, FALSE, co)>>] :
        op \in {"<", "<=", ">", ">="}, co \in BOOLEAN}

\* rows with A = "10" and A = "5"; rows with numeric cells and the cell "8"
mAmounts ==
    MsgFiles(<<Ent(book1, Sheets1(<<Obj(<<Ent(cA, Str(<<"1", "0">>))>>),
                                    Obj(<<Ent(cA, Str(<<"5">>))>>)>>))>>)

mNumbers ==
    MsgFiles(<<Ent(book1, Sheets1(<<Obj(<<Ent(cA, Num(10))>>),
                                    Obj(<<Ent(cA, Str(<<"8">>))>>),
                                    Obj(<<Ent(cA, Num(5))>>),
                                    Obj(<<Ent(cA, Num(8))>>)>>))>>)

\* keep and drop of one wanted column
KeepDropConfigs ==
    {[DefaultSchema EXCEPT
        !.selectMode = md,
        !.selectList = <<SelectEntry(<<>>, "str", w, "str")>>] :
        w \in WantedNames, md \in {"keep", "drop"}}

\* every comparator against "OK", on column B, on the columns C and B, and
\* on a name that differs from the key B by case
Comparators ==
    {"==", "!=", "<", "<=", ">", ">=", "contains", "!contains", "regex",
     "isEmpty", "!isEmpty"}

cb == <<"b">>

xCB == <<"[", "'", "C", "'", ",", "'", "B", "'", "]">>

CandidateConfigs ==
    {[DefaultSchema EXCEPT !.rules =
         <<Rule(<<>>, "str", col[1], col[2], op, "str", <<"O", "K">>, FALSE, TRUE)>>] :
        col \in {<<cB, "str">>, <<cb, "str">>, <<xCB, "jsonata">>}, op \in Comparators}

\* rows with the cell B = "OK", with an empty cell B, and without a column B
mCells ==
    MsgFiles(<<Ent(book1, Sheets1(<<rowOK, Obj(<<Ent(cA, Str(<<"2">>)), Ent(cB, Str(<<>>))>>),
                                    rowC>>))>>)

\* two expression rules, each awaited for every row
rExprA == Rule(<<>>, "str", <<>>, "str", "jsonata", "jsonata", xRowDot \o cA, FALSE, TRUE)
rExprB == Rule(<<>>, "str", <<>>, "str", "jsonata", "jsonata", xRowDot \o cB, FALSE, TRUE)

AwaitConfigs ==
    {[DefaultSchema EXCEPT !.rules = <<rExprA, rExprB>>, !.filterLogic = lg] :
        lg \in {"AND", "OR"}}

\* a target that is the input path itself: the output replaces the input
OverwriteConfigs ==
    {[DefaultSchema EXCEPT !.output.targetPath = kData, !.output.structure = sr] :
        sr \in {"hierarchical", "flat"}}

Scenario(cfg, msgs) == [rt |-> cfg, inbox |-> msgs]

\* the runs of Spec: one message through one configuration
Scenarios ==
    {Scenario(c, <<m>>) : c \in RuleConfigs, m \in {mGood, mNull}}
    \cup {Scenario(c, <<mLock>>) : c \in {r \in RuleConfigs : Len(r.rules) = 1}}
    \cup {Scenario(c, <<mTagged>>) : c \in TagConfigs}
    \cup {Scenario(c, <<mWide>>) : c \in ClampConfigs}
    \cup {Scenario(c, <<mCase>>) : c \in MatchConfigs}
    \cup {Scenario(c, <<mCase>>) : c \in KeepTwoConfigs}
    \cup {Scenario(c, <<mGood>>) : c \in DeriveConfigs}
    \cup {Scenario(c, <<mHoles>>) : c \in NoColConfigs}
    \cup {Scenario(c, <<m>>) : c \in OrderConfigs, m \in {mAmounts, mNumbers}}
    \cup {Scenario(c, <<mGood>>) : c \in OverwriteConfigs}
    \cup {Scenario(c, <<mGood>>) : c \in AwaitConfigs}
    \cup {Scenario(c, <<mCells>>) : c \in CandidateConfigs}
    \cup {Scenario(c, <<mCase>>) : c \in KeepDropConfigs}
    \cup {Scenario(c, <<m>>) : c \in PipelineConfigs, m \in {mGood}}
    \cup {Scenario(c, <<m>>) : c \in PatternConfigs, m \in {mGood, mOdd}}
    \cup {Scenario(c, <<m>>) : c \in OutputConfigs, m \in Messages}

mSmall == MsgFiles(<<Ent(book1, Sheets1(<<rowOK, rowC>>))>>)

mOne == MsgFiles(<<Ent(<<"B", "2">>, Sheets1(<<rowOK>>))>>)

\* the editor configuration that holds the values of schema c
EditorOf(c) ==
    [inputPath |-> c.inputPath, inputPathType |-> c.inputPathType,
     includeSheetRegex |-> c.includeSheetRegex, excludeSheetRegex |-> c.excludeSheetRegex,
     filterLogic |-> c.filterLogic, rules |-> c.rules,
     selectMode |-> c.selectMode, selectList |-> c.selectList,
     renameList |-> c.renameList,
     conditionalRenameEnabled |-> c.conditionalRename.enabled,
     conditionalRenameWhenLhsType |-> c.conditionalRename.whenLhsType,
     conditionalRenameWhenLhs |-> c.conditionalRename.whenLhs,
     conditionalRenameOp |-> c.conditionalRename.op,
     conditionalRenameRhsType |-> c.conditionalRename.rhsType,
     conditionalRenameRhs |-> c.conditionalRename.rhs,
     conditionalRenameList |-> c.conditionalRename.list,
     deriveList |-> c.deriveList,
     outputTargetType |-> c.output.targetType, outputTargetPath |-> c.output.targetPath,
     structure |-> c.output.structure, includeSummary |-> c.output.includeSummary]

\* a node that uses its embedded configuration
Embedded(c) ==
    [useConfigFile |-> FALSE, configFilePath |-> <<>>, lockToFile |-> FALSE,
     watchConfigFile |-> FALSE, config |-> EditorOf(c)]

\* a node locked to the config file at path
LockedTo(path, watch, config) ==
    [useConfigFile |-> TRUE, configFilePath |-> path, lockToFile |-> TRUE,
     watchConfigFile |-> watch, config |-> config]

pSafe == <<"c", ".", "j", "s", "o", "n">>

\* config paths: under the user directory (relative, through a directory and
\* back, absolute with an upper-case extension), above it, absolute outside
\* it, with another extension, with a name that starts with two dots, none
ConfigPaths ==
    {pSafe,
     <<"d", "/", ".", ".", "/">> \o pSafe,
     <<"/", "u", "/", "c", ".", "J", "S", "O", "N">>,
     <<".", ".", "/">> \o pSafe,
     <<"/", "e", "/">> \o pSafe,
     <<"c", ".", "t", "x", "t">>,
     <<".", ".">> \o pSafe,
     <<>>}

\* editor configurations of a locked node: a complete one, and one of an
\* older version of the node that holds a rule list only
EditorConfigs ==
    {EditorOf([DefaultSchema EXCEPT !.rules = <<rGe8>>, !.output.includeSummary = FALSE]),
     [rules |-> <<rEqOK>>]}

\* locked nodes that do not watch, over every path and every state of the file
LockScenarios ==
    {[node |-> LockedTo(p, FALSE, c), file |-> f, inbox |-> <<mOne>>] :
        p \in ConfigPaths, c \in EditorConfigs,
        f \in Writes \cup {FileUnreadable}}

\* locked nodes that watch the file
WatchScenarios ==
    {[node |-> LockedTo(pSafe, TRUE, [rules |-> <<rEqOK>>]), file |-> f,
      inbox |-> <<mOne>>] : f \in {FileGarbage, FileOr, FileAbsent}}

\* lines 148-259: the node after construction over the config file found
Deploy(n, file, msgs) ==
    /\ node = n
    /\ disk = [file |-> file, edits |-> 0]
    /\ watcher = InitialWatcher(n, file)
    /\ rt = InitialSchema(n, file)
    /\ status = InitialStatus(n, file)
    /\ inbox = msgs

InitNode ==
    /\ context \in {[flow |-> Obj(<<Ent(kFlag, v)>>), global |-> Obj(<<>>)] :
                      v \in FlagValues}
    /\ running = 0
    /\ st = [b \in Batches |-> Idle]
    /\ lastLog = <<>>

Init ==
    /\ \/ \E sc \in Scenarios : Deploy(Embedded(sc.rt), FileAbsent, sc.inbox)
       \/ \E sc \in LockScenarios \cup WatchScenarios : Deploy(sc.node, sc.file, sc.inbox)
    /\ InitNode

Next ==
    \/ \E b \in Batches : Input(b)
    \/ \E b \in Batches : NextFile(b)
    \/ \E b \in Batches : NextSheet(b)
    \/ \E b \in Batches : FilterRow(b)
    \/ \E b \in Batches : Select(b)
    \/ \E b \in Batches : RenameRow(b)
    \/ \E b \in Batches : Condition(b)
    \/ \E b \in Batches : CondRenameRow(b)
    \/ \E b \in Batches : DeriveRow(b)
    \/ \E b \in Batches : Emit(b)
    \/ \E b \in Batches : Output(b)
    \/ ContextWrite
    \/ FileChange
    \/ onChange
    \/ Reload

Spec == Init /\ [][Next]_vars

\* the configurations of the runs with several messages: a rule, keep A,
\* A renamed to X, X to Y when the flag is 1, Z derived from Y by an
\* expression, the output in the flow context
BatchConfigs ==
    {[DefaultSchema EXCEPT
        !.rules = <<rGe8>>,
        !.selectMode = "keep", !.selectList = <<SelectEntry(<<>>, "str", cA, "str")>>,
        !.renameList = <<RenameEntry(<<>>, "str", cA, "str", cX, "str")>>,
        !.conditionalRename = CondXY,
        !.deriveList = <<DeriveEntry(cZ, xRowDot \o cY)>>,
        !.output = [targetType |-> "flow", targetPath |-> <<"o", ".", "r">>,
                    structure |-> sr, includeSummary |-> su]] :
        sr \in {"hierarchical", "flat"}, su \in BOOLEAN}

\* the runs of SpecBatches: NBatches messages arrive at one node
InitBatches ==
    /\ \/ \E c \in BatchConfigs : \E msgs \in [1..NBatches -> {mSmall, mOne}] :
             Deploy(Embedded(c), FileAbsent, msgs)
       \/ \E c \in {k \in BatchConfigs : k.output.structure = "flat" /\ k.output.includeSummary} :
             Deploy(LockedTo(pSafe, TRUE, EditorOf(c)),
                    File("text", TRUE, [schema |-> c]), [b \in 1..NBatches |-> mOne])
    /\ InitNode

SpecBatches == InitBatches /\ [][Next]_vars

\* the runs of SpecWatch: a node locked to a watched config file that is
\* not JSON, valid or absent at deploy, or holds a whole pipeline
InitWatch ==
    /\ \/ \E sc \in WatchScenarios : Deploy(sc.node, sc.file, sc.inbox)
       \/ \E c \in {k \in BatchConfigs : k.output.structure = "flat" /\ k.output.includeSummary} :
             Deploy(LockedTo(pSafe, TRUE, EditorOf(c)),
                    File("text", TRUE, [schema |-> c]), <<mSmall>>)
    /\ InitNode

\* a started invocation takes its next step
Step(b) ==
    \/ NextFile(b) \/ NextSheet(b) \/ FilterRow(b) \/ Select(b) \/ RenameRow(b)
    \/ Condition(b) \/ CondRenameRow(b) \/ DeriveRow(b) \/ Emit(b) \/ Output(b)

\* a step of an invocation is enabled; a step of an invocation is taken
StepDue == \E b \in Batches : CanRun(b) /\ Started(b)
StepTaken == \E b \in Batches : CanRun(b) /\ Started(b) /\ st'[b] # st[b]

\* Reload is enabled; Reload is taken
ReloadDue == running = 0 /\ watcher.pending > 0
ReloadTaken == watcher'.pending < watcher.pending

\* The event loop runs every callback that is ready: the continuation of an
\* invocation, the poll of fs.watchFile (every 750 ms) and a timeout that is
\* due (250 ms after the last notification).  This is weak fairness of
\* onChange, of Step and of Reload; for the last two it is written out with
\* the conditions under which they are enabled and taken.
SpecWatch ==
    /\ InitWatch /\ [][Next]_vars
    /\ WF_vars(onChange)
    /\ ([]<>(~StepDue) \/ []<><<StepTaken>>_vars)
    /\ ([]<>(~ReloadDue) \/ []<><<ReloadTaken>>_vars)

----------------------------------------------------------------------------
(* Properties                                                              *)

\* the input object of invocation b, and the files of its data field
InputData(b) == deepGet(inbox[b], context, st[b].rt.inputPathType, st[b].rt.inputPath)

InputFiles(b) == Entries(Get(InputData(b), kData))

SheetsOf(v) == IF Truthy(v) THEN Entries(v) ELSE <<>>

RowsAt(v) == IF IsArray(v) THEN v.e ELSE <<>>

InSeq(x, seq) == \E j \in 1..Len(seq) : seq[j] = x

RECURSIVE SeqSum(_)
SeqSum(q) == IF q = <<>> THEN 0 ELSE Head(q) + SeqSum(Tail(q))

\* the value found at the output target of invocation b
Written(b) ==
    deepGet(st[b].msg, context, st[b].rt.output.targetType, st[b].rt.output.targetPath)

\* the rows of one sheet in the hierarchical output of invocation b
SheetOutput(b, file, sheet) == RowsAt(GetPath(Written(b), <<kData, file, sheet>>))

\* select, renames and derive are all switched off
NoTransforms(cfg) ==
    /\ cfg.selectMode = "none" \/ cfg.selectList = <<>>
    /\ cfg.renameList = <<>>
    /\ ~cfg.conditionalRename.enabled
    /\ cfg.deriveList = <<>>

\* the name's last path component starts with the Office lock prefix
LockBaseName(name) == StartsWith(Basename(name), <<"~", "$">>)

\* C1 as stated: batches are serialized; while an earlier batch is incomplete
\* no step of a later batch has run.
C1_Serialized ==
    \A a \in Batches : \A b \in Batches :
        (a < b /\ st[b].pc # "idle") => st[a].pc \in {"done", "failed"}

\* C1, amended: batches are not serialized, a later batch may run and even
\* complete while an earlier one is suspended on an evaluation; but the working
\* state of a batch is private to its invocation and its output is written in
\* one step after all its processing, so whatever a batch in flight finds at
\* the output target in the context is absent or is the complete output of a
\* batch that has completed, never a partial result.
C1_NoPartialOutput ==
    \A b \in Batches :
        (Started(b) /\ st[b].rt.output.targetType = "flow") =>
            \/ Written(b) = Undefined
            \/ \E a \in Batches : st[a].pc = "done" /\ Written(b) = OutObj(st[a])

\* a later batch has completed and written its output while the batch before
\* it is still in flight with rows of its own in hand
C1_Witness ==
    /\ Started(1) /\ st[1].transformed # <<>>
    /\ st[2].pc = "done"
    /\ Written(1) = OutObj(st[2])
    /\ OutObj(st[2]) # OutObj(st[1])

\* C2 as stated: a failed invocation writes nothing to the output target,
\* does not forward the message, and reports exactly one error.
C2_FailureReportedOnce ==
    \A b \in Batches :
        st[b].pc = "failed" =>
            /\ st[b].sent = 0
            /\ st[b].msg = inbox[b]
            /\ Reports(st[b]) = 1

\* C3 as stated: an invocation whose data field is present and is not a
\* mapping (a number, a string, an array) never completes successfully.
C3_NotMapFails ==
    \A b \in Batches :
        st[b].pc = "done" => Get(InputData(b), kData).t = "object"

\* C4: under AND logic with a non-empty rule list, a row for which some rule
\* evaluates false, wherever the rule sits in the list, is absent from the
\* output of its sheet.
C4_AndExcludes ==
    \A b \in Batches :
        (/\ st[b].pc = "done"
         /\ st[b].rt.filterLogic = "AND" /\ Len(st[b].rt.rules) > 0
         /\ st[b].rt.output.structure = "hierarchical" /\ NoTransforms(st[b].rt)) =>
            \A f \in 1..Len(InputFiles(b)) :
              \A k \in 1..Len(SheetsOf(InputFiles(b)[f].v)) :
                \A j \in 1..Len(RowsAt(SheetsOf(InputFiles(b)[f].v)[k].v)) :
                  LET file == InputFiles(b)[f].k
                      sh == SheetsOf(InputFiles(b)[f].v)[k]
                      row == sh.v.e[j]
                      oneFalse ==
                        \E i \in 1..Len(st[b].rt.rules) :
                          LET e == evalRule(inbox[b], context, st[b].rt.rules[i],
                                            row, sh.k, i)
                          IN  ~e.threw /\ ~e.v
                  IN  oneFalse => ~InSeq(Spread(row), SheetOutput(b, file, sh.k))

\* a completed AND batch with two rules that kept one row and dropped a row for
\* which the first rule is true and the second false
C4_Witness ==
    /\ st[1].pc = "done"
    /\ st[1].rt.filterLogic = "AND" /\ st[1].rt.rules = <<rGe8, rEqOK>>
    /\ inbox[1] = mGood
    /\ SheetOutput(1, book1, sheet1) = <<rowOK>>
    /\ SheetOutput(1, book1, sheet2) = <<>>
    /\ evalRule(inbox[1], context, rGe8, rowC, sheet2, 1).v
    /\ ~evalRule(inbox[1], context, rEqOK, rowC, sheet2, 2).v

\* C5: under OR logic with a non-empty rule list, a row for which some rule
\* evaluates true is present in the output of its sheet, and a row for which
\* every rule evaluates false is absent.
C5_OrIncludes ==
    \A b \in Batches :
        (/\ st[b].pc = "done"
         /\ st[b].rt.filterLogic = "OR" /\ Len(st[b].rt.rules) > 0
         /\ st[b].rt.output.structure = "hierarchical" /\ NoTransforms(st[b].rt)) =>
            \A f \in 1..Len(InputFiles(b)) :
              \A k \in 1..Len(SheetsOf(InputFiles(b)[f].v)) :
                \A j \in 1..Len(RowsAt(SheetsOf(InputFiles(b)[f].v)[k].v)) :
                  LET file == InputFiles(b)[f].k
                      sh == SheetsOf(InputFiles(b)[f].v)[k]
                      row == sh.v.e[j]
                      Val(i) == evalRule(inbox[b], context, st[b].rt.rules[i],
                                         row, sh.k, i)
                      processed ==
                        /\ ~LockBaseName(file)
                        /\ passNameFilters(sh.k, st[b].incSheet, st[b].excSheet)
                      oneTrue ==
                        \E i \in 1..Len(st[b].rt.rules) : ~Val(i).threw /\ Val(i).v
                      allFalse ==
                        \A i \in 1..Len(st[b].rt.rules) : ~Val(i).threw /\ ~Val(i).v
                  IN  /\ (processed /\ oneTrue) =>
                            InSeq(Spread(row), SheetOutput(b, file, sh.k))
                      /\ allFalse => ~InSeq(Spread(row), SheetOutput(b, file, sh.k))

\* a completed OR batch with two rules: a row kept by the second rule alone,
\* and a row that every rule rejects left out
C5_Witness ==
    /\ st[1].pc = "done"
    /\ st[1].rt.filterLogic = "OR" /\ st[1].rt.rules = <<rEqOK, rExpr>>
    /\ inbox[1] = mGood
    /\ SheetOutput(1, book1, sheet1) = <<rowOK>>
    /\ SheetOutput(1, book1, sheet2) = <<rowC>>
    /\ ~evalRule(inbox[1], context, rEqOK, rowC, sheet2, 1).v
    /\ ~evalRule(inbox[1], context, rEqOK, rowNO, sheet1, 1).v
    /\ ~evalRule(inbox[1], context, rExpr, rowNO, sheet1, 2).v

\* the files, sheets and rows the counters of a completed invocation should
\* hold, lock files left out
CountedFiles(b) ==
    SelectSeq(InputFiles(b), LAMBDA en : ~LockBaseName(en.k))

CountedSheets(b, v) ==
    SelectSeq(SheetsOf(v), LAMBDA en : passNameFilters(en.k, st[b].incSheet, st[b].excSheet))

\* the number of rows in the output of invocation b
OutputRowCount(b) ==
    LET data == Get(Written(b), kData)
    IN  IF st[b].rt.output.structure = "hierarchical"
        THEN SeqSum([f \in 1..Len(Entries(data)) |->
                 SeqSum([k \in 1..Len(Entries(Entries(data)[f].v)) |->
                     Len(RowsAt(Entries(Entries(data)[f].v)[k].v))])])
        ELSE Len(RowsAt(data))

\* C6 as stated: a file whose name starts with ~$ never appears in the output
\* and is not counted.
C6_NamePrefixSkipped ==
    \A b \in Batches :
        (st[b].pc = "done" /\ st[b].rt.output.structure = "hierarchical") =>
            /\ \A f \in 1..Len(InputFiles(b)) :
                 StartsWith(InputFiles(b)[f].k, <<"~", "$">>) =>
                    ~HasOwn(Get(Written(b), kData), InputFiles(b)[f].k)
            /\ st[b].fileCount =
                 Len(SelectSeq(InputFiles(b),
                               LAMBDA en : ~StartsWith(en.k, <<"~", "$">>)))

\* C6, amended: a file whose base name (the last component of its path)
\* starts with ~$ is skipped before any other processing: no row of it is
\* ever in the filter or a later stage, it adds nothing to fileCount,
\* sheetCount, rowIn or rowOut, and it appears in neither output structure.
\* A name such as ~$d/B, whose base name is B, is processed.
C6_LockFilesSkipped ==
    \A b \in Batches :
        /\ st[b].pc \in {"sheets", "filter", "rename", "cond", "crename", "derive", "emit"}
              => ~LockBaseName(st[b].file)
        /\ st[b].pc = "done" =>
              /\ st[b].fileCount = Len(CountedFiles(b))
              /\ st[b].sheetCount =
                    SeqSum([f \in 1..Len(CountedFiles(b)) |->
                               Len(CountedSheets(b, CountedFiles(b)[f].v))])
              /\ st[b].rowIn =
                    SeqSum([f \in 1..Len(CountedFiles(b)) |->
                       SeqSum([k \in 1..Len(CountedSheets(b, CountedFiles(b)[f].v)) |->
                                 Len(RowsAt(CountedSheets(b, CountedFiles(b)[f].v)[k].v))])])
              /\ st[b].rowOut = OutputRowCount(b)
              /\ st[b].rowOut <= st[b].rowIn
              /\ IF st[b].rt.output.structure = "hierarchical"
                 THEN \A f \in 1..Len(InputFiles(b)) :
                        HasOwn(Get(Written(b), kData), InputFiles(b)[f].k)
                           => ~LockBaseName(InputFiles(b)[f].k)
                 ELSE \A j \in 1..Len(RowsAt(Get(Written(b), kData))) :
                        ~LockBaseName(ToStr(Get(RowsAt(Get(Written(b), kData))[j], kFile)))

\* a completed batch over four files, two of them lock files (one inside a
\* directory), of which the two others were counted and written out
C6_Witness ==
    /\ st[1].pc = "done"
    /\ inbox[1] = mLock
    /\ st[1].rt.output.structure = "hierarchical"
    /\ Len(st[1].rt.rules) = 1
    /\ st[1].fileCount = 2 /\ st[1].rowIn = 2
    /\ Keys(Get(Written(1), kData)) = <<<<"~", "$", "d", "/", "B">>, book1>>

\* the place of a stage in the order of the pipeline
StageRank(name) ==
    CASE name = "filter" -> 1 [] name = "select" -> 2 [] name = "rename" -> 3
      [] name = "crename" -> 4 [] name = "derive" -> 5

\* the row each stage should hand on, computed from the row it receives
ExpectSelect(s, row) ==
    IF s.rt.selectMode = "none" \/ s.rt.selectList = <<>> THEN Spread(row)
    ELSE IF buildScopedColumnSet(s.msg, context, s.sheetName, s.rt.selectList).v = <<>>
    THEN Spread(row)
    ELSE IF s.rt.selectMode = "keep"
    THEN pickSet(Spread(row),
                 buildScopedColumnSet(s.msg, context, s.sheetName, s.rt.selectList).v)
    ELSE IF s.rt.selectMode = "drop"
    THEN omitSet(Spread(row),
                 buildScopedColumnSet(s.msg, context, s.sheetName, s.rt.selectList).v)
    ELSE Spread(row)

ExpectRename(s, row) ==
    IF s.rt.renameList = <<>> THEN row
    ELSE renameWithList(s.msg, context, row, s.sheetName, s.rt.renameList).v

ExpectCondRename(s, row) ==
    IF s.rt.conditionalRename.enabled /\ s.condTrue[Len(s.condTrue)]
    THEN renameWithList(s.msg, context, row, s.sheetName, s.rt.conditionalRename.list).v
    ELSE row

ExpectDerive(s, row) ==
    IF s.rt.deriveList = <<>> THEN row
    ELSE DeriveFrom(s.rt.deriveList, row, s.sheetName, 1, Spread(row)).v

\* C7: for every sheet the stages run in the order filter, select, static
\* rename, conditional rename, derive: the stages a sheet went through are in
\* that order, and the rows a sheet hands to the output are the rows that
\* passed the filter taken through select on the original headers, then the
\* static renames, then the conditional renames, then derive; a keep list that
\* names no original header of a row retains none of its columns.
C7_StageOrder ==
    \A b \in Batches :
        /\ \A i \in 1..Len(st[b].stages) : \A j \in 1..Len(st[b].stages) :
              i < j => StageRank(st[b].stages[i]) < StageRank(st[b].stages[j])
        /\ st[b].pc = "emit" =>
              /\ Len(st[b].transformed) = Len(st[b].filtered)
              /\ \A j \in 1..Len(st[b].transformed) :
                    st[b].transformed[j] =
                       ExpectDerive(st[b],
                         ExpectCondRename(st[b],
                           ExpectRename(st[b], ExpectSelect(st[b], st[b].filtered[j]))))
              /\ \A j \in 1..Len(st[b].transformed) :
                    (/\ st[b].rt.selectMode = "keep"
                     /\ st[b].rt.selectList # <<>>
                     /\ \A i \in 1..Len(st[b].rt.selectList) :
                           /\ st[b].rt.selectList[i].colType = "str"
                           /\ st[b].rt.selectList[i].sheetScope = <<>>
                           /\ st[b].rt.selectList[i].col # <<>>
                           /\ PickKey(Keys(st[b].filtered[j]),
                                      st[b].rt.selectList[i].col) = <<>>)
                    => \A k \in 1..Len(Keys(st[b].transformed[j])) :
                          \E d \in 1..Len(st[b].rt.deriveList) :
                             st[b].rt.deriveList[d].col = Keys(st[b].transformed[j])[k]

\* a sheet that went through all five stages: column A kept by its original
\* name, renamed to X, X renamed to Y by the conditional list, and Z derived
\* from Y
C7_Witness ==
    /\ st[1].pc = "emit"
    /\ st[1].stages = <<"filter", "select", "rename", "crename", "derive">>
    /\ st[1].rt.selectMode = "keep"
    /\ st[1].filtered = <<rowOK, rowNO>>
    /\ st[1].transformed[1] =
          Obj(<<Ent(cY, Str(<<"1", "0">>)), Ent(cZ, Str(<<"1", "0">>))>>)

\* C8 as stated: the condition of the conditional rename is evaluated once
\* per batch, and all sheets of a batch agree on its result.
C8_OncePerBatch ==
    \A b \in Batches :
        /\ st[b].condEvals <= 1
        /\ \A i \in 1..Len(st[b].condTrue) : st[b].condTrue[i] = st[b].condTrue[1]

\* C9 as stated: an include pattern that does not compile matches no sheet
\* name, so a batch under it includes no sheet.
C9_InvalidIncludeMatchesNothing ==
    \A b \in Batches :
        (/\ st[b].pc = "done"
         /\ st[b].rt.includeSheetRegex # <<>>
         /\ ~RegExpCompiles(st[b].rt.includeSheetRegex)) => st[b].sheetCount = 0

\* the rows the flat output of a sheet should hold for a transformed row:
\* tagged with file and sheet
Tagged(row, file, sheetName) ==
    /\ Get(row, kFile) = Str(file)
    /\ Get(row, kSheet) = Str(sheetName)

\* C10 as stated: in flat output every row carries _file and _sheet naming a
\* file of the input and a sheet of that file, whatever columns the row has.
C10_AlwaysTagged ==
    \A b \in Batches :
        (st[b].pc = "done" /\ st[b].rt.output.structure = "flat") =>
            \A j \in 1..Len(RowsAt(Get(Written(b), kData))) :
               \E f \in 1..Len(InputFiles(b)) :
                 \E k \in 1..Len(SheetsOf(InputFiles(b)[f].v)) :
                    Tagged(RowsAt(Get(Written(b), kData))[j], InputFiles(b)[f].k,
                           SheetsOf(InputFiles(b)[f].v)[k].k)

\* C10, amended: when a sheet's rows join the flat output, a row that after
\* the stages has no column named _file (_sheet) carries _file (_sheet) equal
\* to the name of its file (sheet); a row that has, derives or is renamed to
\* such a column keeps its own value in it; every other column is unchanged.
C10_TaggedUnlessOwn ==
    [][\A b \in Batches :
         (/\ st[b].pc = "emit" /\ st'[b].pc = "sheets"
          /\ st[b].rt.output.structure = "flat") =>
            LET old == RowsAt(Get(st[b].resultMap, kFlat))
                new == RowsAt(Get(st'[b].resultMap, kFlat))
                t == st[b].transformed
            IN  /\ Len(new) = Len(old) + Len(t)
                /\ SubSeq(new, 1, Len(old)) = old
                /\ \A j \in 1..Len(t) :
                     LET out == new[Len(old) + j]
                     IN  /\ Get(out, kFile) = IF HasOwn(t[j], kFile) THEN Get(t[j], kFile)
                                              ELSE Str(st[b].file)
                         /\ Get(out, kSheet) = IF HasOwn(t[j], kSheet) THEN Get(t[j], kSheet)
                                               ELSE Str(st[b].sheetName)
                         /\ \A k \in 1..Len(Keys(t[j])) :
                               Get(out, Keys(t[j])[k]) = Get(t[j], Keys(t[j])[k])
                         /\ \A k \in 1..Len(Keys(out)) :
                               Keys(out)[k] \in {kFile, kSheet} \/ HasOwn(t[j], Keys(out)[k])
      ]_vars

\* a flat output with a row that kept its own _file column next to a row
\* tagged with the name of its file
C10_Witness ==
    /\ st[1].pc = "done"
    /\ st[1].rt.output.structure = "flat"
    /\ inbox[1] = mTagged
    /\ Len(RowsAt(Get(Written(1), kData))) = 2
    /\ Get(RowsAt(Get(Written(1), kData))[1], kFile) = Str(<<"z">>)
    /\ Get(RowsAt(Get(Written(1), kData))[2], kFile) = Str(book1)

\* the rows the input of invocation b holds in the sheets the handler counts
InputRowCount(b) ==
    SeqSum([f \in 1..Len(CountedFiles(b)) |->
       SeqSum([k \in 1..Len(CountedSheets(b, CountedFiles(b)[f].v)) |->
                 Len(RowsAt(CountedSheets(b, CountedFiles(b)[f].v)[k].v))])])

\* C11 as stated: the filteredRatio of the summary is undefined when rowIn = 0.
C11_RatioUndefined ==
    \A b \in Batches :
        (st[b].pc = "done" /\ st[b].rt.output.includeSummary /\ st[b].rowIn = 0) =>
            Get(Get(Written(b), kSummary), kRatio) = Undefined

\* C11, amended: in the emitted summary filteredRatio is rowOut/rowIn, the
\* number of rows written over the number of rows read, whenever rowIn > 0,
\* and is null (a defined value, present in the summary) whenever rowIn = 0.
C11_RatioOrNull ==
    \A b \in Batches :
        (st[b].pc = "done" /\ st[b].rt.output.includeSummary) =>
            /\ HasOwn(Get(Written(b), kSummary), kRatio)
            /\ Get(Get(Written(b), kSummary), kRatio) =
                  IF InputRowCount(b) > 0
                  THEN Ratio(OutputRowCount(b), InputRowCount(b))
                  ELSE Null

\* a completed batch whose one file had every sheet excluded by name: no
\* row read, the ratio null
C11_Witness ==
    /\ st[1].pc = "done"
    /\ st[1].rt.output.includeSummary
    /\ st[1].fileCount = 1 /\ st[1].sheetCount = 0 /\ st[1].rowIn = 0
    /\ st[1].rt.excludeSheetRegex # <<>>
    /\ Get(Get(Written(1), kSummary), kRatio) = Null

\* the names an entry's from or to field resolves to for a row
NamesOf(b, val, typ, row) ==
    StrList(ensureArray(resolveDynamic(st[b].msg, context, val, typ, row,
                                       Str(st[b].sheetName), "names", 1).v))

\* out is row with the columns in gone, column x holding v, the rest as it was
RenamedTo(row, out, gone, x, v) ==
    /\ Get(out, x) = v /\ HasOwn(out, x)
    /\ \A g \in gone : ~HasOwn(out, g)
    /\ \A k \in 1..Len(Keys(row)) :
          Keys(row)[k] \notin gone \cup {x} =>
             /\ HasOwn(out, Keys(row)[k])
             /\ Get(out, Keys(row)[k]) = Get(row, Keys(row)[k])
    /\ \A k \in 1..Len(Keys(out)) : Keys(out)[k] = x \/ HasOwn(row, Keys(out)[k])

\* C12: rename maps pairwise with clamping.  For the one entry of a rename
\* list whose from resolves to [A, B] and whose to resolves to [X] (distinct
\* names), a row holding A and B comes out with X holding B's value, without
\* A and B, every other column unchanged; when from resolves to [A] and to to
\* [X, Y], the row comes out with X holding A's value, without A, and Y is
\* not created.
C12_PairwiseClamp ==
    [][\A b \in Batches :
         (/\ st[b].pc = "rename" /\ st'[b] # st[b]
          /\ Len(st[b].rt.renameList) = 1
          /\ st[b].rt.renameList[1].sheetScope = <<>>) =>
            LET row == st[b].transformed[st[b].ri]
                out == st'[b].transformed[st[b].ri]
                e == st[b].rt.renameList[1]
                from == NamesOf(b, e.from, e.fromType, row)
                to == NamesOf(b, e.to, e.toType, row)
            IN  /\ (/\ Len(from) = 2 /\ Len(to) = 1
                     /\ Cardinality({from[1], from[2], to[1], <<>>}) = 4
                     /\ HasOwn(row, from[1]) /\ HasOwn(row, from[2]))
                    => RenamedTo(row, out, {from[1], from[2]}, to[1], Get(row, from[2]))
                /\ (/\ Len(from) = 1 /\ Len(to) = 2
                     /\ Cardinality({from[1], to[1], to[2], <<>>}) = 4
                     /\ HasOwn(row, from[1]) /\ ~HasOwn(row, to[2]))
                    => /\ RenamedTo(row, out, {from[1]}, to[1], Get(row, from[1]))
                       /\ ~HasOwn(out, to[2])
      ]_vars

\* a row with columns A, B and C renamed by from [A, B], to [X]: C is
\* untouched and X holds B's value
C12_Witness ==
    /\ st[1].pc = "emit"
    /\ st[1].rt.renameList =
          <<RenameEntry(<<>>, "str", xList(<<cA, cB>>), "jsonata",
                        xList(<<cX>>), "jsonata")>>
    /\ st[1].filtered[1] = rowABC
    /\ st[1].transformed[1] =
          Obj(<<Ent(cC, Str(<<"3">>)), Ent(cX, Str(<<"2">>))>>)

\* the name with surrounding blanks removed, in lower case
Normal(name) == ToLowerCase(Trim(name))

\* only select is switched on after the filter
OnlySelect(cfg) ==
    /\ cfg.renameList = <<>> /\ ~cfg.conditionalRename.enabled /\ cfg.deriveList = <<>>

\* C13: name matching differs between select and rules.  Under keep of one
\* name, a row that has the name as a key retains exactly that key, also when
\* another key matches after normalization; a row whose keys match the name
\* only after trimming and lower-casing retains one such column under its
\* actual key.  A rule on the same name looks the key up exactly: a row
\* without that exact key fails the rule, whatever keys match after
\* normalization.
C13_SelectTolerantRuleExact ==
    \A b \in Batches :
        st[b].pc = "emit" /\ OnlySelect(st[b].rt) =>
            /\ (/\ st[b].rt.selectMode = "keep" /\ Len(st[b].rt.selectList) = 1
                 /\ st[b].rt.selectList[1].colType = "str"
                 /\ st[b].rt.selectList[1].sheetScope = <<>>) =>
                   \A j \in 1..Len(st[b].filtered) :
                      LET row == st[b].filtered[j]
                          out == st[b].transformed[j]
                          want == st[b].rt.selectList[1].col
                      IN  /\ HasOwn(row, want) =>
                                out = Obj(<<Ent(want, Get(row, want))>>)
                          /\ (/\ ~HasOwn(row, want)
                               /\ \E k \in 1..Len(Keys(row)) :
                                      Normal(Keys(row)[k]) = Normal(want)) =>
                                /\ Len(Keys(out)) = 1
                                /\ Keys(out)[1] # want
                                /\ Normal(Keys(out)[1]) = Normal(want)
                                /\ HasOwn(row, Keys(out)[1])
                                /\ Get(out, Keys(out)[1]) = Get(row, Keys(out)[1])
            /\ (/\ Len(st[b].rt.rules) = 1
                 /\ st[b].rt.rules[1].colType = "str"
                 /\ st[b].rt.rules[1].op # "jsonata"
                 /\ st[b].rt.rules[1].sheetScope = <<>>) =>
                   \A j \in 1..Len(st[b].rows) :
                      ~HasOwn(st[b].rows[j], st[b].rt.rules[1].col) =>
                          ~InSeq(st[b].rows[j], st[b].filtered)

\* keep of the name a: the row with keys A, B, C retains A, the row with keys
\* a and A retains a alone; a rule on a is false for the first row
C13_Witness ==
    /\ st[1].pc = "emit"
    /\ st[1].rt.selectMode = "keep" /\ st[1].rt.selectList[1].col = ca
    /\ st[1].filtered = <<rowABC, rowBoth>>
    /\ st[1].transformed = <<Obj(<<Ent(cA, Str(<<"1">>))>>),
                             Obj(<<Ent(ca, Str(<<"7">>))>>)>>
    /\ ~evalRule(st[1].msg, context,
                 Rule(<<>>, "str", ca, "str", "!isEmpty", "str", <<>>, FALSE, TRUE),
                 rowABC, st[1].sheetName, 1).v

\* C14 as stated: select-keep is idempotent; keeping the resolved column set
\* again from a row that keep produced gives the same row.
C14_KeepIdempotent ==
    \A b \in Batches :
        (/\ st[b].pc = "emit" /\ OnlySelect(st[b].rt)
         /\ st[b].rt.selectMode = "keep" /\ st[b].rt.selectList # <<>>) =>
            \A j \in 1..Len(st[b].transformed) :
               pickSet(st[b].transformed[j],
                       buildScopedColumnSet(st[b].msg, context, st[b].sheetName,
                                            st[b].rt.selectList).v)
                 = st[b].transformed[j]

\* only derive is switched on after the filter
OnlyDerive(cfg) ==
    /\ cfg.selectMode = "none" \/ cfg.selectList = <<>>
    /\ cfg.renameList = <<>>
    /\ ~cfg.conditionalRename.enabled

\* the outcome of the expression of derive entry d on row r
DeriveOutcome(d, r, sheet) == evalJSONata(sanitizeExpr(d.expr), r, Str(sheet))

\* the entries of the derive list that write column c of row r successfully
Deriving(dl, c, r, sheet) ==
    {i \in 1..Len(dl) : dl[i].col = c /\ DeriveOutcome(dl[i], r, sheet).ok}

Max(S) == CHOOSE x \in S : \A y \in S : y <= x

\* C15: a failing derive expression is isolated.  Every row that passed the
\* filter is handed on; a column that no derive entry writes successfully,
\* the column of a failing entry included, is as it was (present with the
\* same value, or absent); every entry whose expression succeeds is applied,
\* whether it stands before or after a failing one.
C15_DeriveFailureIsolated ==
    \A b \in Batches :
        (st[b].pc = "emit" /\ OnlyDerive(st[b].rt)) =>
            /\ Len(st[b].transformed) = Len(st[b].filtered)
            /\ \A j \in 1..Len(st[b].transformed) :
                  LET r == st[b].filtered[j]
                      o == st[b].transformed[j]
                      dl == st[b].rt.deriveList
                      cols == {Keys(r)[k] : k \in 1..Len(Keys(r))}
                                \cup {dl[i].col : i \in 1..Len(dl)}
                  IN  \A c \in cols :
                         IF Deriving(dl, c, r, st[b].sheetName) = {}
                         THEN /\ HasOwn(o, c) = HasOwn(r, c)
                              /\ Get(o, c) = Get(r, c)
                         ELSE /\ HasOwn(o, c)
                              /\ Get(o, c) =
                                   DeriveOutcome(dl[Max(Deriving(dl, c, r, st[b].sheetName))],
                                                 r, st[b].sheetName).v

\* a sheet whose rows went through a derive list with a failing entry on
\* column A between two good entries: A is as it was, X and Y are derived
C15_Witness ==
    /\ st[1].pc = "emit"
    /\ st[1].rt.deriveList = <<DeriveEntry(cX, <<"'", "q", "'">>),
                               DeriveEntry(cA, xBad),
                               DeriveEntry(cY, xRowDot \o cA)>>
    /\ st[1].filtered = <<rowOK, rowNO>>
    /\ st[1].transformed[1] =
          Obj(<<Ent(cA, Str(<<"1", "0">>)), Ent(cB, Str(<<"O", "K">>)),
                Ent(cX, Str(<<"q">>)), Ent(cY, Str(<<"1", "0">>))>>)

\* an expression evaluation of the step just taken failed
FailedExpr(log) == \E j \in 1..Len(log) : log[j].typ = "jsonata" /\ ~log[j].ok

\* C16 as stated: every expression evaluation failure, at every site,
\* surfaces a diagnostic on the status channel and does not propagate as an
\* exception: after a step in which an evaluation failed, and which no other
\* error ended, the status shows the diagnostic.
C16_FailureDiagnosed ==
    (FailedExpr(lastLog) /\ \A b \in Batches : st[b].pc # "failed") =>
        status = "JSONata ERR"

\* the rules of a configuration whose column reference resolves to no names
NoColumn(cfg) == {i \in 1..Len(cfg.rules) : cfg.rules[i] \in NoColRules}

\* C17: a rule whose column reference resolves to no names (absent, null,
\* an empty list, a failed expression) is false for the row: its right side
\* is never resolved, the invocation does not fail on it, no row passes a
\* filter in which the rule stands alone or under AND, and all rows and
\* sheets of the batch are still read.
C17_NoColumnRuleFalse ==
    \A b \in Batches :
        (Started(b) \/ st[b].pc = "done") /\ NoColumn(st[b].rt) # {} =>
            /\ \A j \in 1..Len(lastLog) :
                  lastLog[j].site = "rhs" => lastLog[j].i \notin NoColumn(st[b].rt)
            /\ (\A i \in 1..Len(st[b].rt.rules) : st[b].rt.rules[i] \in NoColRules \cup {rGe8})
                  => st[b].pc # "failed"
            /\ (st[b].rt.filterLogic = "AND" \/ Len(st[b].rt.rules) = 1) =>
                  /\ st[b].filtered = <<>>
                  /\ st[b].pc = "done" =>
                        /\ st[b].rowOut = 0
                        /\ st[b].rowIn = InputRowCount(b)
                        /\ st[b].sheetCount =
                             SeqSum([f \in 1..Len(CountedFiles(b)) |->
                                       Len(CountedSheets(b, CountedFiles(b)[f].v))])

\* a completed batch under one rule whose column is a null message property
\* and whose right side is an expression: three rows read, none emitted
C17_Witness ==
    /\ st[1].pc = "done"
    /\ inbox[1] = mHoles
    /\ Len(st[1].rt.rules) = 1
    /\ st[1].rt.rules[1].col = kN /\ st[1].rt.rules[1].rhsType = "jsonata"
    /\ st[1].rowIn = 3 /\ st[1].rowOut = 0 /\ st[1].sheetCount = 2

\* the config paths of the runs that lie under the user directory and end in .json
SafePaths ==
    {pSafe, <<"d", "/", ".", ".", "/">> \o pSafe,
     <<"/", "u", "/", "c", ".", "J", "S", "O", "N">>}

\* nothing has happened since the node was constructed
Fresh == disk.edits = 0 /\ \A b \in Batches : st[b].pc = "idle"

\* the load at start-up fails: unsafe path, file missing, unreadable, not JSON
LoadFails ==
    \/ node.configFilePath \notin SafePaths
    \/ disk.file.kind \in {"absent", "unreadable"}
    \/ ~disk.file.json

\* the embedded configurations of the locked nodes with defaults applied
EmbeddedSchema(config) ==
    [DefaultSchema EXCEPT
        !.rules = config.rules,
        !.output.includeSummary =
            IF "includeSummary" \in DOMAIN config THEN config.includeSummary ELSE TRUE]

\* a schema that has every field
Complete(r) ==
    /\ DOMAIN r = DOMAIN DefaultSchema
    /\ DOMAIN r.conditionalRename = DOMAIN DefaultSchema.conditionalRename
    /\ DOMAIN r.output = DOMAIN DefaultSchema.output

\* C18: a node locked to a config file whose load fails at start-up (unsafe
\* path, file missing, unreadable, invalid JSON) runs on its embedded editor
\* configuration with defaults applied and shows a red status; the runtime
\* configuration is never unset, and every batch runs on a complete one.
C18_LockedFallback ==
    /\ (Fresh /\ Locked(node) /\ LoadFails) =>
          /\ rt = EmbeddedSchema(node.config)
          /\ status = "config load failed"
    /\ Complete(rt)
    /\ \A b \in Batches : st[b].pc # "idle" => Complete(st[b].rt)

\* a batch completed by a node locked to a path above the user directory, on
\* the embedded rule list with every other field defaulted
C18_Witness ==
    /\ Locked(node) /\ node.configFilePath = <<".", ".", "/">> \o pSafe
    /\ disk.file = FileFlat
    /\ node.config = [rules |-> <<rEqOK>>]
    /\ st[1].pc = "done"
    /\ st[1].rt = [DefaultSchema EXCEPT !.rules = <<rEqOK>>]
    /\ st[1].rowIn = 1 /\ st[1].rowOut = 1

\* the fully defaulted schema of the documents written to the config file
SchemaOfFile(f) ==
    IF f = FileFlat THEN [DefaultSchema EXCEPT !.output.structure = "flat"]
    ELSE IF f = FileOr THEN [DefaultSchema EXCEPT !.filterLogic = "OR"]
    ELSE DefaultSchema

\* C19: with lock-to-file and watch on and the file present at deploy, once
\* the file has changed and stays a valid document, the runtime schema is
\* eventually, and from then on, the fully defaulted schema of that document;
\* at most one debounce timeout is pending, and the runtime schema changes
\* only when the one pending timeout fires, after all notifications of the burst.
C19_WatchReload ==
    /\ \A f \in {FileFlat, FileOr, FileNoSchema} :
          <>[](watcher.on /\ disk.edits >= 1 /\ disk.file = f)
            => <>[](rt = SchemaOfFile(f))
    /\ [](watcher.pending <= 1)
    /\ [][(rt' # rt \/ watcher'.served # watcher.served) =>
            /\ watcher.pending = 1 /\ watcher'.pending = 0
            /\ watcher'.served = watcher.burst /\ watcher'.burst = 0]_vars

\* two notifications in a row were served by one reload, which loaded the
\* flat schema over the embedded fallback of a file that was not JSON at deploy
C19_Witness ==
    /\ watcher.on /\ watcher.served = 2 /\ watcher.pending = 0
    /\ disk.edits = 2 /\ disk.file = FileFlat
    /\ rt = [DefaultSchema EXCEPT !.output.structure = "flat"]
    /\ status = "config reloaded"
    /\ node.config = [rules |-> <<rEqOK>>]

\* the number a cell of the ordering runs holds
Amount(v) ==
    IF v.t = "number" THEN v.n
    ELSE IF v.s = <<"1", "0">> THEN 10
    ELSE IF v.s = <<"8">> THEN 8
    ELSE 5

\* the ordering of two numbers by a comparator
Ordered(op, x, y) ==
    CASE op = "<" -> x < y [] op = "<=" -> x <= y
      [] op = ">" -> x > y [] op = ">=" -> x >= y

\* the only rule is an ordering of column A against "8"
OrdersA(cfg) ==
    /\ Len(cfg.rules) = 1
    /\ cfg.rules[1].op \in {"<", "<=", ">", ">="}
    /\ cfg.rules[1].col = cA /\ cfg.rules[1].colType = "str"
    /\ cfg.rules[1].rhs = <<"8">> /\ cfg.rules[1].rhsType = "str"
    /\ cfg.rules[1].sheetScope = <<>>

\* C20: under a rule with an ordering comparator a row passes iff its cell
\* and the right side, as numbers, satisfy the ordering, for numeric cells
\* and string cells holding integers, with coercion on and off; for rows
\* with A = "10" and "5" and the rule A >= "8" the batch emits the "10" row
\* and counts rowIn = 2, rowOut = 1.
C20_OrderingNumeric ==
    \A b \in Batches :
        (st[b].pc # "idle" /\ OrdersA(st[b].rt) /\ inbox[b] \in {mAmounts, mNumbers}) =>
            /\ st[b].pc = "emit" =>
                  st[b].filtered =
                     SelectSeq(st[b].rows,
                               LAMBDA r : Ordered(st[b].rt.rules[1].op, Amount(Get(r, cA)), 8))
            /\ (st[b].pc = "done" /\ inbox[b] = mAmounts /\ st[b].rt.rules[1].op = ">=") =>
                  /\ st[b].rowIn = 2 /\ st[b].rowOut = 1
                  /\ Get(Get(Get(st[b].msg, DefaultSchema.output.targetPath), kData), book1)
                       = Sheets1(<<Obj(<<Ent(cA, Str(<<"1", "0">>))>>)>>)

\* the batch of the rows "10" and "5" under A >= "8" with coercion off,
\* completed with the "10" row alone
C20_Witness ==
    /\ st[1].pc = "done" /\ inbox[1] = mAmounts
    /\ OrdersA(st[1].rt)
    /\ st[1].rt.rules[1].op = ">=" /\ st[1].rt.rules[1].coerce = FALSE
    /\ st[1].rowIn = 2 /\ st[1].rowOut = 1


\* one sequence begins the other
Prefixes(p, q) ==
    /\ Len(p) <= Len(q)
    /\ \A j \in 1..Len(p) : p[j] = q[j]

\* the store a scope word names
StoreOf(scope) == IF scope \in {"flow", "global"} THEN scope ELSE "msg"

\* the output target lies on the input path, or the input path on the target
Overwrites(cfg) ==
    /\ StoreOf(cfg.output.targetType) = StoreOf(cfg.inputPathType)
    /\ LET tp == SplitFilter(cfg.output.targetPath, ".")
           ip == SplitFilter(cfg.inputPath, ".")
       IN  Prefixes(tp, ip) \/ Prefixes(ip, tp)

\* the input as it is read now, after what invocation b wrote
InputNow(b) ==
    deepGet(st[b].msg, context, st[b].rt.inputPathType, st[b].rt.inputPath)

\* the rows the pipeline of invocation b holds for the current sheet
Held(b) == IF st[b].pc = "filter" THEN st[b].filtered ELSE st[b].transformed

\* input row i of the current sheet as it is now: what the pipeline holds
\* under its reference where a held row is that very object
InputRowNow(b, i) ==
    IF \E j \in 1..Len(st[b].refs) : st[b].refs[j] = i
    THEN Held(b)[CHOOSE j \in 1..Len(st[b].refs) : st[b].refs[j] = i]
    ELSE st[b].rows[i]

\* the rows of a sheet of the incoming message
InputRows(b, file, sheet) == RowsAt(GetPath(InputData(b), <<kData, file, sheet>>))

\* C21: the pipeline never writes into an input row: while a sheet is worked
\* on, every input row of it has the keys and values it arrived with, the
\* rows that join the output are objects the handler allocated, none of them
\* an input row, and, unless the output target lies on the input path, the
\* input read after the batch is the input that arrived.
C21_InputRowsUntouched ==
    \A b \in Batches :
        LET s == st[b] IN
        /\ s.pc \in {"filter", "rename", "cond", "crename", "derive", "emit"} =>
              /\ s.rows = InputRows(b, s.file, s.sheetName)
              /\ \A i \in 1..Len(s.rows) : InputRowNow(b, i) = s.rows[i]
        /\ s.pc = "emit" => \A j \in 1..Len(s.transformed) : s.refs[j] = 0
        /\ (s.pc = "done" /\ s.done = "ok" /\ ~Overwrites(s.rt)) =>
              InputNow(b) = InputData(b)

\* a batch that renamed and derived on its rows has completed, its output
\* beside the input, and the input still holds the row it arrived with
C21_Witness ==
    /\ st[1].pc = "done" /\ st[1].done = "ok" /\ inbox[1] = mGood
    /\ ~Overwrites(st[1].rt)
    /\ Len(st[1].rt.renameList) > 0 /\ Len(st[1].rt.deriveList) > 0
    /\ st[1].rowOut > 0
    /\ InputRows(1, book1, sheet1) = <<rowOK, rowNO>>
    /\ SheetOutput(1, book1, sheet1) # <<>>
    /\ \A j \in 1..Len(SheetOutput(1, book1, sheet1)) :
          SheetOutput(1, book1, sheet1)[j] \notin {rowOK, rowNO}


\* the evaluations of a step were awaited one after the other, rule by rule
InRuleOrder(log) ==
    \A j \in 1..Len(log) : \A k \in 1..Len(log) : j < k => log[j].i <= log[k].i

\* a step of invocation b
StepOf(b) == st'[b] # st[b]

\* a step of a row loop other than the filter: one row is replaced, in place
RowLoopStep(b) ==
    LET s == st[b]
        n == st'[b]
    IN  /\ Len(n.transformed) = Len(s.transformed)
        /\ \A j \in 1..Len(s.transformed) : j # s.ri => n.transformed[j] = s.transformed[j]
        /\ \/ n.pc = s.pc /\ n.ri = s.ri + 1
           \/ n.pc # s.pc /\ s.ri = Len(s.transformed)

\* C22: within one batch the evaluations are sequential and in row order:
\* a step of the batch is taken only while no other invocation holds the
\* thread, the evaluations of a step are in rule order, a filter step works
\* on row ri alone and moves to row ri + 1, the rows that passed are kept in
\* input order, and every later stage replaces rows in place, one index at a
\* time, so that the rows of a sheet are emitted in the order of the input.
C22_SequentialInOrder ==
    /\ [](\A b \in Batches :
            /\ InRuleOrder(lastLog)
            /\ st[b].pc = "filter" =>
                  /\ Len(st[b].refs) = Len(st[b].filtered)
                  /\ \A j \in 1..Len(st[b].refs) :
                        /\ st[b].refs[j] < st[b].ri
                        /\ st[b].filtered[j] = st[b].rows[st[b].refs[j]]
                        /\ j > 1 => st[b].refs[j - 1] < st[b].refs[j]
            /\ (st[b].pc = "emit" /\ NoTransforms(st[b].rt)) =>
                  st[b].transformed =
                     [j \in 1..Len(st[b].filtered) |-> Spread(st[b].filtered[j])])
    /\ [][\A b \in Batches : StepOf(b) =>
            /\ running \in {0, b}
            /\ \A o \in Batches \ {b} : st'[o] = st[o]
            /\ (st[b].pc = "filter" /\ st'[b].pc = "filter") =>
                  /\ st'[b].ri = st[b].ri + 1
                  /\ st'[b].filtered \in
                        {st[b].filtered, Append(st[b].filtered, st[b].rows[st[b].ri])}
            /\ (st[b].pc = "filter" /\ st'[b].pc \notin {"filter", "failed"}) =>
                  /\ st[b].ri = Len(st[b].rows) + 1
                  /\ Len(st'[b].transformed) = Len(st[b].filtered)
            /\ (st[b].pc \in {"rename", "crename", "derive"} /\ st'[b].pc # "failed") =>
                  RowLoopStep(b)]_vars

\* two rows passed an expression rule one after the other and were emitted
\* in the order of the input
C22_Witness ==
    /\ st[1].pc = "emit" /\ inbox[1] = mGood
    /\ st[1].sheetName = sheet1
    /\ st[1].rt.rules = <<rExprA, rExprB>> /\ st[1].rt.filterLogic = "AND"
    /\ st[1].rows = <<rowOK, rowNO>>
    /\ st[1].transformed = <<rowOK, rowNO>>


\* the candidate column names of the rule of a comparator run
Candidates(r) == IF r.colType = "jsonata" THEN <<cC, cB>> ELSE <<r.col>>

\* whether a cell of the comparator runs, "OK", "x" or the empty string,
\* satisfies a comparator against "OK", case ignored
Satisfies(op, cell) ==
    CASE op \in {"==", "contains", "regex"} -> cell = Str(<<"O", "K">>)
      [] op \in {"!=", "!contains"} -> cell # Str(<<"O", "K">>)
      [] op = "isEmpty" -> cell = Str(<<>>)
      [] op = "!isEmpty" -> cell # Str(<<>>)
      [] OTHER -> FALSE

\* the rule of a comparator run passes for the row
CandidatePasses(r, row) ==
    \E j \in 1..Len(Candidates(r)) :
        /\ \E k \in 1..Len(row.e) : row.e[k].k = Candidates(r)[j]
        /\ Satisfies(r.op, Get(row, Candidates(r)[j]))

\* C23: a rule that compares columns passes for a row iff one of its
\* candidate names is an exact key of the row and that cell satisfies the
\* comparator; the row without any of the candidate columns fails under
\* every comparator, the negative ones and isEmpty included.
C23_AnyCandidateExactKey ==
    \A b \in Batches :
        (st[b].pc = "emit" /\ st[b].rt \in CandidateConfigs /\ inbox[b] = mCells) =>
            /\ st[b].filtered =
                  SelectSeq(st[b].rows, LAMBDA row : CandidatePasses(st[b].rt.rules[1], row))
            /\ st[b].rt.rules[1].col \in {cB, cb} => ~InSeq(rowC, st[b].filtered)
            /\ st[b].rt.rules[1].col = cb => st[b].filtered = <<>>

\* under "B is not OK" the row with the empty cell B passed, and the row
\* without a column B did not
C23_Witness ==
    /\ st[1].pc = "emit" /\ inbox[1] = mCells
    /\ st[1].rt \in CandidateConfigs
    /\ st[1].rt.rules[1].op = "!=" /\ st[1].rt.rules[1].col = cB
    /\ Len(st[1].filtered) = 1 /\ st[1].filtered[1] # rowC
    /\ Get(st[1].filtered[1], cB) = Str(<<>>)


\* the rules of a list whose sheet scope is empty or names the sheet
InScope(rules, sheet) ==
    SelectSeq(rules, LAMBDA r : r.sheetScope = <<>> \/ r.sheetScope = sheet)

\* C24: a rule scoped to another sheet does not constrain the sheet: under
\* AND and under OR, for a rule list with a rule scoped by name to another
\* sheet and at least one rule that applies, the rows of the sheet that
\* pass the filter are those that pass the list without the scoped rule.
C24_OutOfScopeRuleRemovable ==
    \A b \in Batches :
        LET s == st[b] IN
        (/\ s.pc = "emit" /\ inbox[b] = mGood
         /\ s.rt \in RuleConfigs
         /\ InScope(s.rt.rules, s.sheetName) # s.rt.rules
         /\ InScope(s.rt.rules, s.sheetName) # <<>>) =>
            s.filtered =
               SelectSeq(s.rows,
                         LAMBDA row :
                            rowPasses([s.rt EXCEPT !.rules = InScope(@, s.sheetName)],
                                      s.msg, context, row, s.sheetName).v)


\* the stages of the last sheet of invocation b are those its snapshot asks for
StagesOf(b) ==
    LET s == st[b]
        c == s.rt
    IN  s.transformed # <<>> =>
           /\ InSeq("select", s.stages) <=> (c.selectMode # "none" /\ c.selectList # <<>>)
           /\ InSeq("rename", s.stages) <=> c.renameList # <<>>
           /\ InSeq("derive", s.stages) <=> c.deriveList # <<>>
           /\ s.condEvals > 0 <=> c.conditionalRename.enabled

\* the output of invocation b is at the target of its snapshot, in the
\* structure and with the summary the snapshot asks for
OutputOf(b) ==
    LET c == st[b].rt
        w == Written(b)
    IN  /\ HasOwn(w, kData)
        /\ IsArray(Get(w, kData)) <=> c.output.structure = "flat"
        /\ HasOwn(w, kSummary) <=> c.output.includeSummary
        /\ c.output.includeSummary => Get(w, kRules) = RulesOf(c)

\* C25: a batch works with the configuration that was current when it
\* started: the snapshot is the runtime configuration at the start, it
\* does not change while the batch runs, whatever a reload does to the
\* runtime configuration in between, and the stages, the output target,
\* the structure and the summary of the batch are those of its snapshot.
C25_BatchSnapshot ==
    /\ [][\A b \in Batches :
            /\ (st[b].pc = "idle" /\ st'[b].pc # "idle") => st'[b].rt = rt
            /\ st[b].pc # "idle" => st'[b].rt = st[b].rt]_vars
    /\ [](\A b \in Batches :
            (st[b].pc = "done" /\ st[b].done = "ok") => StagesOf(b) /\ OutputOf(b))

\* a reload replaced the runtime configuration while the first batch was
\* suspended in its derive stage, before its rows joined the result; the
\* second batch started after the reload and completed under the new
\* configuration, the first still holds the configuration it started with
C25_Witness ==
    /\ st[1].pc = "emit" /\ running = 0
    /\ st[1].rt # rt
    /\ st[1].rt.deriveList # <<>> /\ rt.deriveList = <<>>
    /\ InSeq("derive", st[1].stages)
    /\ st[2].pc = "done" /\ st[2].done = "ok" /\ st[2].rt = rt
    /\ OutputOf(2)


\* the set of keys of a row
KeySet(row) == {Keys(row)[j] : j \in 1..Len(Keys(row))}

\* C26: keep and drop are complementary: for every row of a sheet and the
\* column set the select list resolved to, the stage produced what pickSet
\* (keep) or omitSet (drop) gives for the row, and the keys pickSet retains
\* and the keys omitSet retains are disjoint and together are the keys of
\* the row.
C26_KeepDropComplementary ==
    \A b \in Batches :
        LET s == st[b] IN
        (s.pc = "emit" /\ s.rt \in KeepDropConfigs /\ inbox[b] = mCase) =>
            \A j \in 1..Len(s.filtered) :
                LET row == s.filtered[j]
                    set == <<s.rt.selectList[1].col>>
                IN  /\ s.transformed[j] =
                          IF s.rt.selectMode = "keep" THEN pickSet(row, set)
                          ELSE omitSet(row, set)
                    /\ KeySet(pickSet(row, set)) \cap KeySet(omitSet(row, set)) = {}
                    /\ KeySet(pickSet(row, set)) \cup KeySet(omitSet(row, set)) = KeySet(row)


kRowIn == <<"r", "o", "w", "I", "n">>

kRowOut == <<"r", "o", "w", "O", "u", "t">>

\* C27: in a completed batch the counters agree with the data: rowOut is
\* the number of rows in the output, the length of the flat list or the sum
\* of the lengths of the sheet arrays, rowOut is at most rowIn, rowIn is the
\* number of rows of the sheets that are arrays in files that are not lock
\* files under names the sheet filters let through, and the summary in the
\* output holds these two counters.
C27_SummaryMatchesData ==
    \A b \in Batches :
        (st[b].pc = "done" /\ st[b].done = "ok") =>
            /\ st[b].rowOut = OutputRowCount(b)
            /\ st[b].rowOut <= st[b].rowIn
            /\ st[b].rowIn = InputRowCount(b)
            /\ st[b].rt.output.includeSummary =>
                  /\ Get(Get(Written(b), kSummary), kRowIn) = Num(InputRowCount(b))
                  /\ Get(Get(Written(b), kSummary), kRowOut) = Num(OutputRowCount(b))

\* a completed batch whose first sheet is a string and is not counted: one
\* row came in with the second sheet, the flat output holds that row and
\* the summary says 1 and 1
C27_Witness ==
    /\ st[1].pc = "done" /\ st[1].done = "ok" /\ inbox[1] = mOdd
    /\ st[1].rt.output.structure = "flat" /\ st[1].rt.output.includeSummary
    /\ st[1].sheetCount = 2
    /\ Len(RowsAt(Get(Written(1), kData))) = 1
    /\ Get(Get(Written(1), kSummary), kRowIn) = Num(1)
    /\ Get(Get(Written(1), kSummary), kRowOut) = Num(1)

====
